---- MODULE Spec2Model ----
(***************************************************************************)
(* A model of the SkyForge computation pipeline: the numerology engine,    *)
(* the biorhythm and moon engines, the risk analyzer, the daily entry      *)
(* orchestrator with its lazily cached life path, and the REST routes over *)
(* the stored profiles.                                                     *)
(*                                                                         *)
(* State: one call at a time.  arg holds the arguments of the call, ret    *)
(* its return value once pc = "done", profile the in-memory UserProfile    *)
(* object the orchestrator mutates, and store the profiles directory: the  *)
(* saved record of every profile name that has a file.  frame holds the    *)
(* local variables of the handlers that are between two of their steps.    *)
(*                                                                         *)
(* Numbers with one decimal (cycle values, risk_score) are carried as      *)
(* integers counting tenths.                                                *)
(***************************************************************************)
EXTENDS Integers, Sequences, FiniteSets, TLC

VARIABLES pc, arg, ret, profile, store, frame

vars == <<pc, arg, ret, profile, store, frame>>

(***************************************************************************)
(* Optional values: None is the empty tuple, a present value v is <<v>>.   *)
(***************************************************************************)
None == << >>

Some(v) == <<v>>

NoProfile == [name |-> "", birth_date |-> None, life_path_number |-> None]

\* a profiles directory without files
EmptyStore == [name \in {} |-> None]

\* no handler is between two of its steps
NoFrame == << >>

(***************************************************************************)
(* Bounds of the model.                                                     *)
(***************************************************************************)
\* reduce_to_single_digit is applied to every integer in -MaxNumber..MaxNumber
MaxNumber == 1200

\* birth dates range over every calendar day of MinYear..MaxYear
MinYear == 1900

MaxYear == 2100

\* the digit-sum sequence n, ds(n), ds(ds(n)), ... is inspected up to this index
MaxPasses == 5

(***************************************************************************)
(* Calendar dates (datetime.date): records [year, month, day].             *)
(***************************************************************************)
IsLeapYear(y) == (y % 4 = 0 /\ y % 100 # 0) \/ y % 400 = 0

DaysInMonth(y, m) ==
    IF m = 2 THEN (IF IsLeapYear(y) THEN 29 ELSE 28)
    ELSE IF m \in {4, 6, 9, 11} THEN 30 ELSE 31

DatesOfYears(lo, hi) ==
    {dt \in [year : lo..hi, month : 1..12, day : 1..31] :
        dt.day <= DaysInMonth(dt.year, dt.month)}

(***************************************************************************)
(* Numerology engine (calculators/numerology.py).                           *)
(***************************************************************************)
MASTER_NUMBERS == {11, 22, 33}

Abs(n) == IF n < 0 THEN -n ELSE n

\* sum(int(d) for d in str(n)), n >= 0: the sum of the decimal digits
RECURSIVE DigitSum(_)
DigitSum(n) == IF n < 10 THEN n ELSE (n % 10) + DigitSum(n \div 10)

\* faulty variant: the master numbers are not preserved
RECURSIVE reduce_no_master(_, _)
reduce_no_master(number, keep_master) ==
    IF number > 9
    THEN reduce_no_master(DigitSum(Abs(number)), keep_master)
    ELSE number

\* while number > 9: return a kept master number, else sum the digits
RECURSIVE reduce_to_single_digit(_, _)
reduce_to_single_digit(number, keep_master) ==
    IF number > 9
    THEN IF keep_master /\ number \in MASTER_NUMBERS
         THEN number
         ELSE reduce_to_single_digit(DigitSum(Abs(number)), keep_master)
    ELSE number

\* faulty variant: the components are summed without reducing each one first
life_path_unreduced_parts(birth_date) ==
    reduce_to_single_digit(
        birth_date.month + birth_date.day + DigitSum(birth_date.year), TRUE)

calculate_life_path(birth_date) ==
    LET month == reduce_to_single_digit(birth_date.month, TRUE)
        day   == reduce_to_single_digit(birth_date.day, TRUE)
        year  == reduce_to_single_digit(DigitSum(birth_date.year), TRUE)
        total == month + day + year
    IN  reduce_to_single_digit(total, TRUE)

(***************************************************************************)
(* Specification SpecNumerology: one call of reduce_to_single_digit or of  *)
(* calculate_life_path, on an input drawn from the bounded sets.            *)
(***************************************************************************)
ReduceArgs ==
    [op : {"reduce_to_single_digit"},
     number : (-MaxNumber)..MaxNumber,
     keep_master : BOOLEAN]

LifePathArgs ==
    [op : {"calculate_life_path"}, birth_date : DatesOfYears(MinYear, MaxYear)]

InitNumerology ==
    /\ pc = "call"
    /\ arg \in ReduceArgs \cup LifePathArgs
    /\ ret = None
    /\ profile = NoProfile
    /\ store = EmptyStore
    /\ frame = NoFrame

CallReduce ==
    /\ pc = "call"
    /\ arg.op = "reduce_to_single_digit"
    /\ ret' = reduce_to_single_digit(arg.number, arg.keep_master)
    /\ pc' = "done"
    /\ UNCHANGED <<arg, profile, store, frame>>

CallLifePath ==
    /\ pc = "call"
    /\ arg.op = "calculate_life_path"
    /\ ret' = calculate_life_path(arg.birth_date)
    /\ pc' = "done"
    /\ UNCHANGED <<arg, profile, store, frame>>

NextNumerology == CallReduce \/ CallLifePath

SpecNumerology == InitNumerology /\ [][NextNumerology]_vars

Returned(op) == pc = "done" /\ arg.op = op

NumerologyNumbers == (1..9) \cup MASTER_NUMBERS

(***************************************************************************)
(* The digit-sum sequence n, ds(n), ds(ds(n)), ... of the numerology       *)
(* claims, and its first element at which a reduction stops.                *)
(***************************************************************************)
RECURSIVE DigitSumIter(_, _)
DigitSumIter(n, k) == IF k = 0 THEN n ELSE DigitSumIter(DigitSum(n), k - 1)

Stops(v, keep_master) == v <= 9 \/ (keep_master /\ v \in {11, 22, 33})

FirstStop(n, keep_master) ==
    LET k == CHOOSE i \in 0..MaxPasses :
                 /\ Stops(DigitSumIter(n, i), keep_master)
                 /\ \A j \in 0..(i - 1) : ~Stops(DigitSumIter(n, j), keep_master)
    IN  DigitSumIter(n, k)

\* C1 (as claimed): for every integer n, zero and negative integers included,
\* reduce_to_single_digit(n) returns a value in {1..9, 11, 22, 33}.
C1_ReduceAnyIntegerInRange ==
    (Returned("reduce_to_single_digit") /\ arg.keep_master)
        => ret \in NumerologyNumbers

\* C2: for every n >= 1, reduce_to_single_digit(n, keep_master=True) is the first
\* element of n, ds(n), ds(ds(n)), ... that is <= 9 or a master number, and with
\* keep_master=False the first element that is <= 9 (38 -> 11 resp. 2, 11 -> 2,
\* 22 -> 4, 33 -> 6).
C2_ReduceIsFirstStop ==
    (Returned("reduce_to_single_digit") /\ arg.number >= 1)
        => /\ ret = FirstStop(arg.number, arg.keep_master)
           /\ (arg.number = 38 /\ arg.keep_master) => ret = 11
           /\ (arg.number = 38 /\ ~arg.keep_master) => ret = 2
           /\ (arg.number = 11 /\ ~arg.keep_master) => ret = 2
           /\ (arg.number = 22 /\ ~arg.keep_master) => ret = 4
           /\ (arg.number = 33 /\ ~arg.keep_master) => ret = 6

\* an intermediate master number stopped the reduction of 38
C2_Witness ==
    /\ Returned("reduce_to_single_digit")
    /\ arg.number = 38
    /\ arg.keep_master
    /\ ret = 11

\* C3: for every valid birth date, calculate_life_path is
\* reduce(reduce(month) + reduce(day) + reduce(digit-sum(year))) with master
\* numbers kept at every reduction, lies in {1..9, 11, 22, 33}, and is 5 for
\* 1985-03-15.
C3_LifePathFormula ==
    Returned("calculate_life_path")
        => LET d == arg.birth_date
           IN  /\ ret = FirstStop(FirstStop(d.month, TRUE) + FirstStop(d.day, TRUE)
                                  + FirstStop(DigitSum(d.year), TRUE), TRUE)
               /\ ret \in NumerologyNumbers
               /\ d = [year |-> 1985, month |-> 3, day |-> 15] => ret = 5

C3_Witness ==
    /\ Returned("calculate_life_path")
    /\ arg.birth_date = [year |-> 1985, month |-> 3, day |-> 15]
    /\ ret = 5

(***************************************************************************)
(* Risk analyzer (analyzers/risk.py).  Cycle values and risk_score carry   *)
(* one decimal and are counted in tenths.                                   *)
(***************************************************************************)
Tenths == 10

Min(a, b) == IF a < b THEN a ELSE b

\* faulty variant: a void-of-course moon weighs 4
risk_weights_heavy_voc ==
    [moon_voc |-> 4, biorhythm_critical |-> 4, biorhythm_low |-> 2,
     challenging_numerology |-> 2]

RISK_WEIGHTS ==
    [moon_voc |-> 3, biorhythm_critical |-> 4, biorhythm_low |-> 2,
     challenging_numerology |-> 2]

PROTECTIVE_PRACTICES ==
    [spiritual |-> <<"Morning grounding meditation", "Protective visualization",
                     "Energy clearing", "Intention setting">>,
     emotional |-> <<"Journaling", "Breathwork", "Self-compassion practice",
                     "Connecting with supportive people">>,
     physical  |-> <<"Gentle stretching", "Adequate hydration", "Extra rest",
                     "Mindful movement">>]

GROUNDING_TECHNIQUES ==
    [Low      |-> <<"5-minute breathing", "Brief nature walk">>,
     Moderate |-> <<"10-minute meditation", "Grounding visualization", "Body scan">>,
     Elevated |-> <<"20-minute meditation", "Earth connection exercise",
                    "Cold water on wrists">>,
     High     |-> <<"Extended meditation", "Nature immersion", "Digital detox",
                    "Early bedtime">>]

DEFAULT_PRACTICES == <<"Standard self-care practices", "Mindful awareness">>

RiskWarning(domain, source, message, severity) ==
    [domain |-> domain, source |-> source, message |-> message,
     severity |-> severity]

\* the accumulators at function entry
RiskStart ==
    [spiritual_risk |-> 0, emotional_risk |-> 0, physical_risk |-> 0,
     warnings |-> << >>]

MoonVocRisk(acc, moon) ==
    IF moon.moon_void_of_course
    THEN [acc EXCEPT
            !.spiritual_risk = @ + RISK_WEIGHTS.moon_voc,
            !.emotional_risk = @ + RISK_WEIGHTS.moon_voc,
            !.warnings = Append(@, RiskWarning("Spiritual", "Moon Void of Course",
                "Avoid initiating new projects or making major decisions",
                "Caution"))]
    ELSE acc

PhysicalCriticalRisk(acc, bio) ==
    IF bio.physical_critical
    THEN [acc EXCEPT
            !.physical_risk = @ + RISK_WEIGHTS.biorhythm_critical,
            !.warnings = Append(@, RiskWarning("Physical",
                "Physical Biorhythm Critical",
                "Take extra care with physical activities; accident risk elevated",
                "Warning"))]
    ELSE acc

\* faulty variant: a value of exactly -50 counts as low
PhysicalLowInclusive(acc, bio) ==
    IF bio.physical <= -50 * Tenths
    THEN [acc EXCEPT
            !.physical_risk = @ + RISK_WEIGHTS.biorhythm_low,
            !.warnings = Append(@, RiskWarning("Physical", "Physical Biorhythm Low",
                "Energy is depleted; prioritize rest over exertion", "Caution"))]
    ELSE acc

PhysicalLowRisk(acc, bio) ==
    IF bio.physical < -50 * Tenths
    THEN [acc EXCEPT
            !.physical_risk = @ + RISK_WEIGHTS.biorhythm_low,
            !.warnings = Append(@, RiskWarning("Physical", "Physical Biorhythm Low",
                "Energy is depleted; prioritize rest over exertion", "Caution"))]
    ELSE acc

EmotionalCriticalRisk(acc, bio) ==
    IF bio.emotional_critical
    THEN [acc EXCEPT
            !.emotional_risk = @ + RISK_WEIGHTS.biorhythm_critical,
            !.warnings = Append(@, RiskWarning("Emotional",
                "Emotional Biorhythm Critical",
                "Emotional sensitivity heightened; practice extra self-care",
                "Warning"))]
    ELSE acc

EmotionalLowRisk(acc, bio) ==
    IF bio.emotional < -50 * Tenths
    THEN [acc EXCEPT
            !.emotional_risk = @ + RISK_WEIGHTS.biorhythm_low,
            !.warnings = Append(@, RiskWarning("Emotional", "Emotional Biorhythm Low",
                "Emotional resilience reduced; avoid difficult conversations",
                "Caution"))]
    ELSE acc

IntellectualCriticalRisk(acc, bio) ==
    IF bio.intellectual_critical
    THEN [acc EXCEPT
            !.spiritual_risk = @ + 2,
            !.warnings = Append(@, RiskWarning("Spiritual",
                "Intellectual Biorhythm Critical",
                "Mental clarity fluctuating; double-check important decisions",
                "Caution"))]
    ELSE acc

\* faulty variant: the low intellectual cycle raises the score but appends no warning
IntellectualLowNoWarning(acc, bio) ==
    IF bio.intellectual < -50 * Tenths
    THEN [acc EXCEPT !.spiritual_risk = @ + 1]
    ELSE acc

IntellectualLowRisk(acc, bio) ==
    IF bio.intellectual < -50 * Tenths
    THEN [acc EXCEPT
            !.spiritual_risk = @ + 1,
            !.warnings = Append(@, RiskWarning("Spiritual",
                "Intellectual Biorhythm Low",
                "Mental energy depleted; postpone complex analysis", "Caution"))]
    ELSE acc

\* faulty variant: every challenging number is charged to the spiritual domain
NumerologyAllSpiritual(acc, numerology) ==
    IF numerology.personal_day \in {4, 7, 9}
    THEN [acc EXCEPT !.spiritual_risk = @ + 1]
    ELSE acc

NumerologyRisk(acc, numerology) ==
    LET challenging_numbers == {4, 7, 9}
    IN  IF numerology.personal_day \in challenging_numbers
        THEN IF numerology.personal_day = 7
             THEN [acc EXCEPT !.spiritual_risk = @ + 1]
             ELSE IF numerology.personal_day = 9
             THEN [acc EXCEPT !.emotional_risk = @ + 1]
             ELSE IF numerology.personal_day = 4
             THEN [acc EXCEPT !.physical_risk = @ + 1]
             ELSE acc
        ELSE acc

\* min(risk, 10)
CapRisk(risk) == Min(risk, 10)

\* Python's round(): the nearest integer to num/den, a tie going to the even one
RoundHalfEven(num, den) ==
    LET q == num \div den
        r == num % den
    IN  IF 2 * r < den THEN q
        ELSE IF 2 * r > den THEN q + 1
        ELSE IF q % 2 = 0 THEN q ELSE q + 1

\* faulty variant: the mean is not scaled to 0-100
RiskScoreNoScale(spiritual, emotional, physical) ==
    RoundHalfEven((spiritual + emotional + physical) * Tenths, 3)

\* total_risk = (s + e + p) / 3; round(total_risk * 10, 1), in tenths
RiskScore(spiritual, emotional, physical) ==
    RoundHalfEven((spiritual + emotional + physical) * 10 * Tenths, 3)

RiskLevel(risk_score) ==
    IF risk_score < 25 * Tenths THEN "Low"
    ELSE IF risk_score < 50 * Tenths THEN "Moderate"
    ELSE IF risk_score < 75 * Tenths THEN "Elevated"
    ELSE "High"

\* lst[:n]
Take(lst, n) == SubSeq(lst, 1, Min(n, Len(lst)))

\* faulty variant: a domain qualifies only above 3
ProtectiveAboveThree(spiritual, emotional, physical) ==
    LET protective ==
            (IF spiritual > 3 THEN Take(PROTECTIVE_PRACTICES.spiritual, 2) ELSE << >>)
         \o (IF emotional > 3 THEN Take(PROTECTIVE_PRACTICES.emotional, 2) ELSE << >>)
         \o (IF physical > 3 THEN Take(PROTECTIVE_PRACTICES.physical, 2) ELSE << >>)
    IN  IF protective = << >> THEN DEFAULT_PRACTICES ELSE protective

\* the list `protective` before its truncation to 4 entries
ProtectiveList(spiritual, emotional, physical) ==
    LET protective ==
            (IF spiritual >= 3 THEN Take(PROTECTIVE_PRACTICES.spiritual, 2) ELSE << >>)
         \o (IF emotional >= 3 THEN Take(PROTECTIVE_PRACTICES.emotional, 2) ELSE << >>)
         \o (IF physical >= 3 THEN Take(PROTECTIVE_PRACTICES.physical, 2) ELSE << >>)
    IN  IF protective = << >> THEN DEFAULT_PRACTICES ELSE protective

Grounding(overall_level) ==
    IF overall_level \in DOMAIN GROUNDING_TECHNIQUES
    THEN GROUNDING_TECHNIQUES[overall_level]
    ELSE GROUNDING_TECHNIQUES["Low"]

calculate_risk_analysis(moon_data, biorhythm_data, numerology_data) ==
    LET a1 == MoonVocRisk(RiskStart, moon_data)
        a2 == PhysicalCriticalRisk(a1, biorhythm_data)
        a3 == PhysicalLowRisk(a2, biorhythm_data)
        a4 == EmotionalCriticalRisk(a3, biorhythm_data)
        a5 == EmotionalLowRisk(a4, biorhythm_data)
        a6 == IntellectualCriticalRisk(a5, biorhythm_data)
        a7 == IntellectualLowRisk(a6, biorhythm_data)
        a8 == NumerologyRisk(a7, numerology_data)
        spiritual_risk == CapRisk(a8.spiritual_risk)
        emotional_risk == CapRisk(a8.emotional_risk)
        physical_risk  == CapRisk(a8.physical_risk)
        risk_score     == RiskScore(spiritual_risk, emotional_risk, physical_risk)
        overall_level  == RiskLevel(risk_score)
        protective     == ProtectiveList(spiritual_risk, emotional_risk, physical_risk)
    IN  [spiritual_risk |-> spiritual_risk,
         emotional_risk |-> emotional_risk,
         physical_risk |-> physical_risk,
         overall_risk_level |-> overall_level,
         risk_score |-> risk_score,
         warnings |-> a8.warnings,
         protective_practices |-> Take(protective, 4),
         grounding_techniques |-> Grounding(overall_level)]

(***************************************************************************)
(* Specification SpecRisk: one call of calculate_risk_analysis.  The cycle *)
(* values are sampled on both sides of the -50 threshold.                   *)
(***************************************************************************)
CycleSamples ==
    {-100 * Tenths, -50 * Tenths - 1, -50 * Tenths, -50 * Tenths + 1, 0,
     100 * Tenths}

RiskArgs ==
    [op : {"calculate_risk_analysis"},
     moon : [moon_void_of_course : BOOLEAN],
     biorhythm : [physical : CycleSamples, emotional : CycleSamples,
                  intellectual : CycleSamples, physical_critical : BOOLEAN,
                  emotional_critical : BOOLEAN, intellectual_critical : BOOLEAN],
     numerology : [personal_day : NumerologyNumbers]]

InitRisk ==
    /\ pc = "call"
    /\ arg \in RiskArgs
    /\ ret = None
    /\ profile = NoProfile
    /\ store = EmptyStore
    /\ frame = NoFrame

CallRiskAnalysis ==
    /\ pc = "call"
    /\ arg.op = "calculate_risk_analysis"
    /\ ret' = calculate_risk_analysis(arg.moon, arg.biorhythm, arg.numerology)
    /\ pc' = "done"
    /\ UNCHANGED <<arg, profile, store, frame>>

NextRisk == CallRiskAnalysis

SpecRisk == InitRisk /\ [][NextRisk]_vars

(***************************************************************************)
(* The risk claims.  The conditions are read off the arguments of the      *)
(* call; B counts a condition as 0 or 1.                                    *)
(***************************************************************************)
B(cond) == IF cond THEN 1 ELSE 0

Voc == arg.moon.moon_void_of_course

PhysicalLow == arg.biorhythm.physical < -50 * Tenths

EmotionalLow == arg.biorhythm.emotional < -50 * Tenths

IntellectualLow == arg.biorhythm.intellectual < -50 * Tenths

PersonalDay == arg.numerology.personal_day

DomainSum == ret.spiritual_risk + ret.emotional_risk + ret.physical_risk

\* the number of moon and biorhythm conditions that hold
TriggerCount ==
    B(Voc) + B(arg.biorhythm.physical_critical) + B(PhysicalLow)
    + B(arg.biorhythm.emotional_critical) + B(EmotionalLow)
    + B(arg.biorhythm.intellectual_critical) + B(IntellectualLow)

BandOf(score) ==
    CASE score < 250 -> "Low"
      [] score >= 250 /\ score < 500 -> "Moderate"
      [] score >= 500 /\ score < 750 -> "Elevated"
      [] score >= 750 -> "High"

\* C5: spiritual = min(10, 3[VOC] + 2[int. critical] + [int. < -50] + [day = 7]),
\* emotional = min(10, 3[VOC] + 4[emo. critical] + 2[emo. < -50] + [day = 9]),
\* physical = min(10, 4[phys. critical] + 2[phys. < -50] + [day = 4]),
\* risk_score = round(10 * mean, 1), the level follows the bands 25/50/75 and
\* grounding_techniques is the fixed list of that level.
C5_RiskFormula ==
    Returned("calculate_risk_analysis")
        => /\ ret.spiritual_risk =
                Min(10, 3 * B(Voc) + 2 * B(arg.biorhythm.intellectual_critical)
                        + B(IntellectualLow) + B(PersonalDay = 7))
           /\ ret.emotional_risk =
                Min(10, 3 * B(Voc) + 4 * B(arg.biorhythm.emotional_critical)
                        + 2 * B(EmotionalLow) + B(PersonalDay = 9))
           /\ ret.physical_risk =
                Min(10, 4 * B(arg.biorhythm.physical_critical)
                        + 2 * B(PhysicalLow) + B(PersonalDay = 4))
           \* risk_score (in tenths) is the integer nearest to 100 * sum / 3
           /\ Abs(3 * ret.risk_score - 100 * DomainSum) <= 1
           /\ ret.overall_risk_level = BandOf(ret.risk_score)
           /\ ret.grounding_techniques = GROUNDING_TECHNIQUES[ret.overall_risk_level]

C5_Witness ==
    /\ Returned("calculate_risk_analysis")
    /\ PersonalDay = 9
    /\ ret.emotional_risk = 10
    /\ ret.spiritual_risk = 3
    /\ ret.physical_risk = 0
    /\ ret.risk_score = 433
    /\ ret.overall_risk_level = "Moderate"

MaximallyAdverse ==
    /\ Voc
    /\ arg.biorhythm.physical_critical
    /\ arg.biorhythm.emotional_critical
    /\ arg.biorhythm.intellectual_critical
    /\ PhysicalLow /\ EmotionalLow /\ IntellectualLow
    /\ PersonalDay \in {4, 7, 9}

\* C6: every domain score is within 0..10 and risk_score within 0..100; for the
\* maximally adverse input the level is Elevated or High and risk_score >= 50.
C6_RiskRanges ==
    Returned("calculate_risk_analysis")
        => /\ ret.spiritual_risk \in 0..10
           /\ ret.emotional_risk \in 0..10
           /\ ret.physical_risk \in 0..10
           /\ ret.risk_score \in 0..1000
           /\ MaximallyAdverse
                => /\ ret.overall_risk_level \in {"Elevated", "High"}
                   /\ ret.risk_score >= 500

C6_Witness ==
    /\ Returned("calculate_risk_analysis")
    /\ MaximallyAdverse
    /\ ret.risk_score = 733
    /\ ret.overall_risk_level = "Elevated"

AllNeutral ==
    /\ ~Voc
    /\ ~arg.biorhythm.physical_critical
    /\ ~arg.biorhythm.emotional_critical
    /\ ~arg.biorhythm.intellectual_critical
    /\ ~PhysicalLow /\ ~EmotionalLow /\ ~IntellectualLow
    /\ PersonalDay \notin {4, 7, 9}

\* C7: an all-neutral input yields three domain scores of 0, level Low, no
\* warning, and the fixed default pair of protective practices.
C7_NeutralBaseline ==
    (Returned("calculate_risk_analysis") /\ AllNeutral)
        => /\ ret.spiritual_risk = 0
           /\ ret.emotional_risk = 0
           /\ ret.physical_risk = 0
           /\ ret.overall_risk_level = "Low"
           /\ ret.warnings = << >>
           /\ ret.protective_practices =
                <<"Standard self-care practices", "Mindful awareness">>

\* a neutral input with a cycle value of exactly -50
C7_Witness ==
    /\ Returned("calculate_risk_analysis")
    /\ AllNeutral
    /\ arg.biorhythm.physical = -50 * Tenths
    /\ ret.overall_risk_level = "Low"

\* C8 (as claimed): every condition that raises a domain score also appends a
\* warning, so the warnings list is empty iff all three domain scores are 0.
C8_WarningsIffScores ==
    Returned("calculate_risk_analysis")
        => (ret.warnings = << >> <=> DomainSum = 0)

\* C8 (amended): every moon or biorhythm condition (VOC, a critical flag, a
\* value below -50) appends exactly one warning tagged Caution or Warning, and
\* personal_day in {4,7,9} raises a score by 1 without a warning; so the
\* warnings list is empty iff no moon or biorhythm condition holds, scores that
\* are all 0 imply an empty list, and an empty list leaves a score sum of 1
\* exactly when personal_day is in {4,7,9}.
C8_WarningsPerTrigger ==
    Returned("calculate_risk_analysis")
        => /\ Len(ret.warnings) = TriggerCount
           /\ \A i \in 1..Len(ret.warnings) :
                /\ ret.warnings[i].severity \in {"Caution", "Warning"}
                /\ ret.warnings[i].domain \in {"Spiritual", "Emotional", "Physical"}
           /\ DomainSum = 0 => ret.warnings = << >>
           /\ ret.warnings = << >> => DomainSum = B(PersonalDay \in {4, 7, 9})

\* a challenging personal day alone: a raised score and no warning
C8_Witness ==
    /\ Returned("calculate_risk_analysis")
    /\ PersonalDay = 7
    /\ TriggerCount = 0
    /\ ret.spiritual_risk = 1
    /\ ret.warnings = << >>

\* the first 2 practices of each domain whose score is >= 3, in domain order
ElevatedDomainPractices ==
    (IF ret.spiritual_risk >= 3
        THEN <<"Morning grounding meditation", "Protective visualization">>
        ELSE << >>)
    \o (IF ret.emotional_risk >= 3 THEN <<"Journaling", "Breathwork">> ELSE << >>)
    \o (IF ret.physical_risk >= 3
        THEN <<"Gentle stretching", "Adequate hydration">>
        ELSE << >>)

NoDomainElevated ==
    ret.spiritual_risk < 3 /\ ret.emotional_risk < 3 /\ ret.physical_risk < 3

\* C9: protective_practices is the concatenation, in the order spiritual,
\* emotional, physical, of the first 2 practices of each domain whose capped
\* score is >= 3, truncated to 4 entries; it is the default pair exactly when no
\* domain score is >= 3; its length is between 2 and 4.
C9_ProtectivePractices ==
    Returned("calculate_risk_analysis")
        => /\ ~NoDomainElevated
                => ret.protective_practices =
                     SubSeq(ElevatedDomainPractices, 1,
                            Min(4, Len(ElevatedDomainPractices)))
           /\ ret.protective_practices =
                <<"Standard self-care practices", "Mindful awareness">>
                <=> NoDomainElevated
           /\ Len(ret.protective_practices) \in 2..4

\* three elevated domains: six practices truncated to four
C9_Witness ==
    /\ Returned("calculate_risk_analysis")
    /\ ret.spiritual_risk = 3
    /\ ret.emotional_risk >= 3
    /\ ret.physical_risk >= 3
    /\ ret.protective_practices =
         <<"Morning grounding meditation", "Protective visualization",
           "Journaling", "Breathwork">>

\* C25: for every input to calculate_risk_analysis (any combination of VOC
\* flag, critical flags, cycle values and personal_day) the sum of the three
\* domain scores is at most 22 and risk_score is below 75, so
\* overall_risk_level is never High and the High grounding-technique list is
\* never returned.
C25_NeverHigh ==
    Returned("calculate_risk_analysis")
        => /\ DomainSum <= 22
           /\ ret.risk_score < 75 * Tenths
           /\ ret.overall_risk_level # "High"
           /\ ret.grounding_techniques # GROUNDING_TECHNIQUES.High

\* every trigger at once on a personal day 7: the sum is 7 + 9 + 6 = 22
C25_Witness ==
    /\ Returned("calculate_risk_analysis")
    /\ MaximallyAdverse
    /\ PersonalDay = 7
    /\ ret.spiritual_risk = 7
    /\ ret.emotional_risk = 9
    /\ ret.physical_risk = 6
    /\ DomainSum = 22
    /\ ret.grounding_techniques = GROUNDING_TECHNIQUES.Elevated

(***************************************************************************)
(* Biorhythm engine (calculators/biorhythm.py): the phase of a cycle       *)
(* value, the value counted in tenths.                                      *)
(***************************************************************************)
CRITICAL_THRESHOLD == 5

\* faulty variant: the lower band edges are inclusive
get_cycle_phase_inclusive(value) ==
    IF Abs(value) <= CRITICAL_THRESHOLD * Tenths THEN "Critical"
    ELSE IF value >= 80 * Tenths THEN "Peak"
    ELSE IF value >= 50 * Tenths THEN "High"
    ELSE IF value >= 0 THEN "Rising"
    ELSE IF value >= -50 * Tenths THEN "Falling"
    ELSE IF value >= -80 * Tenths THEN "Low"
    ELSE "Valley"

get_cycle_phase(value) ==
    IF Abs(value) <= CRITICAL_THRESHOLD * Tenths THEN "Critical"
    ELSE IF value > 80 * Tenths THEN "Peak"
    ELSE IF value > 50 * Tenths THEN "High"
    ELSE IF value > 0 THEN "Rising"
    ELSE IF value > -50 * Tenths THEN "Falling"
    ELSE IF value > -80 * Tenths THEN "Low"
    ELSE "Valley"

\* faulty variant: only the first of the two Mixed patterns is recognised
overall_energy_one_pattern(physical, emotional, intellectual) ==
    LET values == <<physical, emotional, intellectual>>
        total == physical + emotional + intellectual
        positive_count ==
            Cardinality({k \in DOMAIN values : values[k] > 20 * Tenths})
        negative_count ==
            Cardinality({k \in DOMAIN values : values[k] < -20 * Tenths})
    IN  IF positive_count >= 2 /\ negative_count >= 1 THEN "Mixed"
        ELSE IF total > 3 * 40 * Tenths THEN "High"
        ELSE IF total > 3 * (-20) * Tenths THEN "Moderate"
        ELSE "Low"

\* avg = sum(values) / 3 is compared with a threshold t as total > 3 * t
calculate_overall_energy(physical, emotional, intellectual) ==
    LET values == <<physical, emotional, intellectual>>
        total == physical + emotional + intellectual
        positive_count ==
            Cardinality({k \in DOMAIN values : values[k] > 20 * Tenths})
        negative_count ==
            Cardinality({k \in DOMAIN values : values[k] < -20 * Tenths})
    IN  IF positive_count >= 2 /\ negative_count >= 1 THEN "Mixed"
        ELSE IF negative_count >= 2 /\ positive_count >= 1 THEN "Mixed"
        ELSE IF total > 3 * 40 * Tenths THEN "High"
        ELSE IF total > 3 * (-20) * Tenths THEN "Moderate"
        ELSE "Low"

(***************************************************************************)
(* Specification SpecBiorhythm: one call of get_cycle_phase on a value of  *)
(* [-100, 100], or one call of calculate_overall_energy on three values of *)
(* a grid of [-100, 100] that holds both sides of every threshold.         *)
(***************************************************************************)
CycleValues == (-100 * Tenths)..(100 * Tenths)

EnergySamples ==
    {-100 * Tenths, -60 * Tenths, -20 * Tenths - 1, -20 * Tenths,
     -20 * Tenths + 1, 0, 20 * Tenths - 1, 20 * Tenths, 20 * Tenths + 1,
     40 * Tenths, 40 * Tenths + 1, 60 * Tenths, 100 * Tenths}

InitBiorhythm ==
    /\ pc = "call"
    /\ arg \in [op : {"get_cycle_phase"}, value : CycleValues]
              \cup [op : {"calculate_overall_energy"}, physical : EnergySamples,
                    emotional : EnergySamples, intellectual : EnergySamples]
    /\ ret = None
    /\ profile = NoProfile
    /\ store = EmptyStore
    /\ frame = NoFrame

CallGetCyclePhase ==
    /\ pc = "call"
    /\ arg.op = "get_cycle_phase"
    /\ ret' = get_cycle_phase(arg.value)
    /\ pc' = "done"
    /\ UNCHANGED <<arg, profile, store, frame>>

CallOverallEnergy ==
    /\ pc = "call"
    /\ arg.op = "calculate_overall_energy"
    /\ ret' = calculate_overall_energy(arg.physical, arg.emotional,
                                       arg.intellectual)
    /\ pc' = "done"
    /\ UNCHANGED <<arg, profile, store, frame>>

NextBiorhythm == CallGetCyclePhase \/ CallOverallEnergy

SpecBiorhythm == InitBiorhythm /\ [][NextBiorhythm]_vars

C11_OverallEnergy ==
    Returned("calculate_overall_energy")
        => LET vals == {<<1, arg.physical>>, <<2, arg.emotional>>,
                        <<3, arg.intellectual>>}
               above == Cardinality({x \in vals : x[2] > 200})
               below == Cardinality({x \in vals : x[2] < -200})
               sum == arg.physical + arg.emotional + arg.intellectual
               mixed == \/ (above >= 2 /\ below >= 1)
                        \/ (below >= 2 /\ above >= 1)
           IN  /\ ret = "Mixed" <=> mixed
               /\ ret = "High" <=> (~mixed /\ sum > 1200)
               /\ ret = "Moderate" <=> (~mixed /\ sum <= 1200 /\ sum > -600)
               /\ ret = "Low" <=> (~mixed /\ sum <= -600)

\* two values below -20 and one above +20: Mixed although the average is low
C11_Witness ==
    /\ Returned("calculate_overall_energy")
    /\ arg.physical = -1000
    /\ arg.emotional = -201
    /\ arg.intellectual = 201
    /\ ret = "Mixed"

(***************************************************************************)
(* Numerology of a target day (calculators/numerology.py).                  *)
(***************************************************************************)
calculate_personal_year(birth_date, target_year) ==
    LET month == reduce_to_single_digit(birth_date.month, TRUE)
        day   == reduce_to_single_digit(birth_date.day, TRUE)
        year  == reduce_to_single_digit(DigitSum(target_year), TRUE)
        total == month + day + year
    IN  reduce_to_single_digit(total, TRUE)

calculate_personal_month(personal_year, month) ==
    reduce_to_single_digit(personal_year + month, TRUE)

\* faulty variant: a master number of the day is reduced further
personal_day_no_master(personal_month, day) ==
    reduce_to_single_digit(personal_month + day, FALSE)

calculate_personal_day(personal_month, day) ==
    reduce_to_single_digit(personal_month + day, TRUE)

calculate_universal_day(target_date) ==
    reduce_to_single_digit(
        target_date.month + target_date.day + DigitSum(target_date.year), TRUE)

\* life_path is optional: None makes the function compute it
calculate_numerology_for_day(birth_date, target_date, life_path) ==
    LET lp == IF life_path = None THEN calculate_life_path(birth_date)
              ELSE life_path[1]
        personal_year  == calculate_personal_year(birth_date, target_date.year)
        personal_month == calculate_personal_month(personal_year, target_date.month)
        personal_day   == calculate_personal_day(personal_month, target_date.day)
        universal_day  == calculate_universal_day(target_date)
    IN  [life_path |-> lp,
         personal_year |-> personal_year,
         personal_month |-> personal_month,
         personal_day |-> personal_day,
         universal_day |-> universal_day,
         master_number_active |-> personal_day \in MASTER_NUMBERS]

(***************************************************************************)
(* Daily entry orchestrator (generators/daily_entry.py).  The call yields  *)
(* the profile as the call leaves it and the returned DailyPreparation, of *)
(* which the date, the numerology, biorhythm and risk records, the moon's  *)
(* void-of-course flag and the records of the stub engines are modelled.   *)
(***************************************************************************)
\* target_date.timetuple().tm_yday
RECURSIVE DaysBeforeMonth(_, _)
DaysBeforeMonth(y, m) ==
    IF m = 1 THEN 0 ELSE DaysBeforeMonth(y, m - 1) + DaysInMonth(y, m - 1)

DayOfYear(d) == DaysBeforeMonth(d.year, d.month) + d.day

\* date.toordinal(): the days from 0001-01-01, that day counting as 1
ToOrdinal(d) ==
    LET y == d.year - 1
    IN  y * 365 + (y \div 4) - (y \div 100) + (y \div 400) + DayOfYear(d)

(***************************************************************************)
(* Biorhythm of a day (calculators/biorhythm.py).  An unrounded cycle      *)
(* value is counted in units of 1/Precision, a rounded one in tenths.      *)
(***************************************************************************)
PHYSICAL_CYCLE == 23

EMOTIONAL_CYCLE == 28

INTELLECTUAL_CYCLE == 33

Precision == 10000

\* sin(2 * pi * k / cycle_length) * 100 for k = 0 .. cycle_length - 1, to four
\* decimals
SINE_PHYSICAL ==
    <<0, 269797, 519584, 730836, 887885, 979084, 997669, 942261, 816970,
      631088, 398401, 136167, -136167, -398401, -631088, -816970, -942261,
      -997669, -979084, -887885, -730836, -519584, -269797>>

SINE_EMOTIONAL ==
    <<0, 222521, 433884, 623490, 781831, 900969, 974928, 1000000, 974928,
      900969, 781831, 623490, 433884, 222521, 0, -222521, -433884, -623490,
      -781831, -900969, -974928, -1000000, -974928, -900969, -781831, -623490,
      -433884, -222521>>

SINE_INTELLECTUAL ==
    <<0, 189251, 371662, 540641, 690079, 814576, 909632, 971812, 998867,
      989821, 945001, 866025, 755750, 618159, 458227, 281733, 95056, -95056,
      -281733, -458227, -618159, -755750, -866025, -945001, -989821, -998867,
      -971812, -909632, -814576, -690079, -540641, -371662, -189251>>

\* the sine has the period of the cycle, so the value is read off the table
\* at days_alive modulo the cycle length, for days before the birth as well
calculate_cycle_value(days_alive, cycle_length) ==
    LET table == CASE cycle_length = PHYSICAL_CYCLE -> SINE_PHYSICAL
                   [] cycle_length = EMOTIONAL_CYCLE -> SINE_EMOTIONAL
                   [] cycle_length = INTELLECTUAL_CYCLE -> SINE_INTELLECTUAL
    IN  table[(days_alive % cycle_length) + 1]

\* faulty variant: a value within 10 of zero counts as critical
is_critical_day_within_ten(days_alive, cycle_length) ==
    Abs(calculate_cycle_value(days_alive, cycle_length)) <= 10 * Precision

is_critical_day(days_alive, cycle_length) ==
    Abs(calculate_cycle_value(days_alive, cycle_length))
        <= CRITICAL_THRESHOLD * Precision

\* round(value, 1), in tenths
RoundToTenths(value) == RoundHalfEven(value * Tenths, Precision)

\* of the BiorhythmData the values, phases, critical flags and overall
\* energy are modelled
calculate_biorhythm_for_day(birth_date, target_date) ==
    LET days_alive == ToOrdinal(target_date) - ToOrdinal(birth_date)
        physical ==
            RoundToTenths(calculate_cycle_value(days_alive, PHYSICAL_CYCLE))
        emotional ==
            RoundToTenths(calculate_cycle_value(days_alive, EMOTIONAL_CYCLE))
        intellectual ==
            RoundToTenths(calculate_cycle_value(days_alive, INTELLECTUAL_CYCLE))
    IN  [physical |-> physical,
         emotional |-> emotional,
         intellectual |-> intellectual,
         physical_phase |-> get_cycle_phase(physical),
         emotional_phase |-> get_cycle_phase(emotional),
         intellectual_phase |-> get_cycle_phase(intellectual),
         physical_critical |-> is_critical_day(days_alive, PHYSICAL_CYCLE),
         emotional_critical |-> is_critical_day(days_alive, EMOTIONAL_CYCLE),
         intellectual_critical |->
             is_critical_day(days_alive, INTELLECTUAL_CYCLE),
         overall_energy |->
             calculate_overall_energy(physical, emotional, intellectual)]

(***************************************************************************)
(* Stub engines of the orchestrator: solar transit, Human Design gate and  *)
(* I Ching hexagram, all driven by the day of the year.                    *)
(***************************************************************************)
SunSign(end_month, end_day, sign) ==
    [end_month |-> end_month, end_day |-> end_day, sign |-> sign]

sun_signs ==
    <<SunSign(1, 20, "Capricorn"), SunSign(2, 19, "Aquarius"),
      SunSign(3, 20, "Pisces"), SunSign(4, 20, "Aries"),
      SunSign(5, 21, "Taurus"), SunSign(6, 21, "Gemini"),
      SunSign(7, 22, "Cancer"), SunSign(8, 23, "Leo"),
      SunSign(9, 23, "Virgo"), SunSign(10, 23, "Libra"),
      SunSign(11, 22, "Scorpio"), SunSign(12, 22, "Sagittarius")>>

\* the profile argument is not read
generate_solar_transit(target_date, prof) ==
    LET month == target_date.month
        day == target_date.day
        hits == {k \in DOMAIN sun_signs :
                    \/ month < sun_signs[k].end_month
                    \/ (month = sun_signs[k].end_month
                        /\ day <= sun_signs[k].end_day)}
        first == CHOOSE k \in hits : \A j \in hits : k <= j
        day_of_year == DayOfYear(target_date)
    IN  [sun_sign |-> IF hits = {} THEN "Capricorn" ELSE sun_signs[first].sign,
         house_focus |-> (((day_of_year - 1) \div 30) % 12) + 1]

HD_TYPES ==
    {"Generator", "Manifesting Generator", "Projector", "Manifestor",
     "Reflector"}

authorities ==
    [t \in HD_TYPES |->
        CASE t = "Generator" -> "Sacral"
          [] t = "Manifesting Generator" -> "Sacral"
          [] t = "Projector" -> "Splenic or Emotional"
          [] t = "Manifestor" -> "Emotional or Splenic"
          [] t = "Reflector" -> "Lunar"]

\* x or default, for an optional string x
OrElse(x, default) == IF x = None \/ x = Some("") THEN default ELSE x[1]

\* d.get(key, default)
GetOr(d, key, default) == IF key \in DOMAIN d THEN d[key] ELSE default

\* faulty variant: the gate is counted from 0
human_design_gate_from_zero(target_date, prof) ==
    LET hd_type == OrElse(prof.human_design_type, "Generator")
        day_of_year == DayOfYear(target_date)
        base_gate == (day_of_year * 7) % 64
    IN  [type |-> hd_type,
         authority |-> OrElse(prof.human_design_authority,
                              GetOr(authorities, hd_type, "Sacral")),
         active_gates |-> <<[gate_number |-> base_gate,
                             line |-> (day_of_year % 6) + 1,
                             planet |-> "Sun"]>>]

generate_human_design(target_date, prof) ==
    LET hd_type == OrElse(prof.human_design_type, "Generator")
        day_of_year == DayOfYear(target_date)
        base_gate == ((day_of_year * 7) % 64) + 1
    IN  [type |-> hd_type,
         authority |-> OrElse(prof.human_design_authority,
                              GetOr(authorities, hd_type, "Sacral")),
         active_gates |-> <<[gate_number |-> base_gate,
                             line |-> (day_of_year % 6) + 1,
                             planet |-> "Sun"]>>]

upper_trigrams ==
    <<"Heaven", "Earth", "Thunder", "Water", "Mountain", "Wind", "Fire",
      "Lake">>

\* the hexagram is the first gate of the Sun, else the first gate, else 1;
\* the sequences are indexed from 1 where the lists are indexed from 0
generate_i_ching(human_design) ==
    LET gates == human_design.active_gates
        suns == {k \in DOMAIN gates : gates[k].planet = "Sun"}
        sun_gate == IF suns # {}
                    THEN Some(gates[CHOOSE k \in suns : \A j \in suns : k <= j])
                    ELSE IF gates # << >> THEN Some(gates[1]) ELSE None
        hexagram_num == IF sun_gate # None THEN sun_gate[1].gate_number ELSE 1
    IN  [hexagram_number |-> hexagram_num,
         trigram_above |-> upper_trigrams[((hexagram_num - 1) \div 8) + 1],
         trigram_below |-> upper_trigrams[((hexagram_num - 1) % 8) + 1],
         changing_lines |-> IF sun_gate # None THEN <<sun_gate[1].line>>
                            ELSE << >>]

\* calculate_moon_data, by either moon engine: of the MoonData the
\* void-of-course flag is modelled, which both engines set to False
calculate_moon_data(target_date) == [moon_void_of_course |-> FALSE]

\* faulty variant: the moon is reported void of course
DailyPreparationVoidMoon(target_date, prof) ==
    LET moon_data == [moon_void_of_course |-> TRUE]
        numerology_data == calculate_numerology_for_day(
            prof.birth_date, target_date, prof.life_path_number)
        biorhythm_data == calculate_biorhythm_for_day(prof.birth_date, target_date)
        human_design == generate_human_design(target_date, prof)
    IN  [date |-> target_date,
         day_of_year |-> DayOfYear(target_date),
         moon |-> moon_data,
         numerology |-> numerology_data,
         biorhythm |-> biorhythm_data,
         solar_transit |-> generate_solar_transit(target_date, prof),
         human_design |-> human_design,
         i_ching |-> generate_i_ching(human_design),
         risk_analysis |-> calculate_risk_analysis(moon_data, biorhythm_data,
                                                   numerology_data)]

\* the domain calls and the risk analyzer of generate_daily_entry after the
\* life path is settled
DailyPreparation(target_date, prof) ==
    LET moon_data == calculate_moon_data(target_date)
        numerology_data == calculate_numerology_for_day(
            prof.birth_date, target_date, prof.life_path_number)
        biorhythm_data == calculate_biorhythm_for_day(prof.birth_date, target_date)
        human_design == generate_human_design(target_date, prof)
    IN  [date |-> target_date,
         day_of_year |-> DayOfYear(target_date),
         moon |-> moon_data,
         numerology |-> numerology_data,
         biorhythm |-> biorhythm_data,
         solar_transit |-> generate_solar_transit(target_date, prof),
         human_design |-> human_design,
         i_ching |-> generate_i_ching(human_design),
         risk_analysis |-> calculate_risk_analysis(moon_data, biorhythm_data,
                                                   numerology_data)]

\* faulty variant: the life path is recomputed on every call, overwriting the cache
generate_always_recompute(target_date, prof) ==
    LET cached == [prof EXCEPT
                     !.life_path_number = Some(calculate_life_path(prof.birth_date))]
    IN  [profile |-> cached, entry |-> DailyPreparation(target_date, cached)]

\* faulty variant: the report is built from the profile as received and the
\* cache is filled with the life path reduced past its master number
generate_cache_single_digit(target_date, prof) ==
    LET cached == IF prof.life_path_number = None
                  THEN [prof EXCEPT
                          !.life_path_number =
                              Some(reduce_to_single_digit(
                                       calculate_life_path(prof.birth_date), FALSE))]
                  ELSE prof
    IN  [profile |-> cached, entry |-> DailyPreparation(target_date, prof)]

generate_daily_entry(target_date, prof) ==
    LET cached == IF prof.life_path_number = None
                  THEN [prof EXCEPT
                          !.life_path_number =
                              Some(calculate_life_path(prof.birth_date))]
                  ELSE prof
    IN  [profile |-> cached, entry |-> DailyPreparation(target_date, cached)]

(***************************************************************************)
(* Specification SpecGenerate: a profile object, with its life path absent *)
(* or already set, on which generate_daily_entry is called again and again. *)
(* arg.profile is the profile as the call received it, arg.previous the     *)
(* date, received profile and report of the call before it.                 *)
(***************************************************************************)
\* birth dates range over every day of BirthYearFirst..BirthYearLast
BirthYearFirst == 1990

BirthYearLast == 1990

\* target dates: the first MaxTargetDay days of the first MaxTargetMonth months
TargetYear == 2026

MaxTargetMonth == 1

MaxTargetDay == 2

TargetDates ==
    [year : {TargetYear}, month : 1..MaxTargetMonth, day : 1..MaxTargetDay]

ProfileMetadata == [created_at |-> None, updated_at |-> None]

\* a UserProfile: birth_date is birth_data.date, birth_time birth_data.time,
\* personal_year_cache the empty dictionary
UserProfile(name, birth_date, life_path_number, human_design_type) ==
    [name |-> name,
     birth_date |-> birth_date,
     life_path_number |-> life_path_number,
     human_design_type |-> human_design_type,
     human_design_strategy |-> None,
     human_design_authority |-> None,
     personal_year_cache |-> << >>,
     metadata |-> ProfileMetadata,
     birth_time |-> None]

Profiles ==
    {UserProfile("fresh", birth_date, life_path_number, None) :
        birth_date \in DatesOfYears(BirthYearFirst, BirthYearLast),
        life_path_number \in {None} \cup {Some(n) : n \in NumerologyNumbers}}

InitGenerate ==
    /\ pc = "idle"
    /\ arg = None
    /\ ret = None
    /\ profile \in Profiles
    /\ store = EmptyStore
    /\ frame = NoFrame

GenerateDailyEntry ==
    \E target_date \in TargetDates :
        LET out == generate_daily_entry(target_date, profile)
        IN  /\ arg' = [op |-> "generate_daily_entry",
                       target_date |-> target_date,
                       profile |-> profile,
                       previous |-> IF pc = "done"
                                    THEN Some([target_date |-> arg.target_date,
                                               profile |-> arg.profile,
                                               entry |-> ret])
                                    ELSE None]
            /\ profile' = out.profile
            /\ ret' = out.entry
            /\ pc' = "done"
            /\ UNCHANGED <<store, frame>>

NextGenerate == GenerateDailyEntry

SpecGenerate == InitGenerate /\ [][NextGenerate]_vars

\* C4: after generate_daily_entry returns, profile.life_path_number is set: if
\* it was absent before the call it equals calculate_life_path of the birth
\* date, if it was present it is unchanged; and the report's numerology.life_path
\* equals profile.life_path_number.
C4_LifePathCached ==
    (pc = "done" /\ arg.op = "generate_daily_entry")
        => /\ profile.life_path_number # None
           /\ arg.profile.life_path_number = None
                => profile.life_path_number =
                     Some(calculate_life_path(arg.profile.birth_date))
           /\ arg.profile.life_path_number # None
                => profile.life_path_number = arg.profile.life_path_number
           /\ Some(ret.numerology.life_path) = profile.life_path_number

\* a fresh profile born 1990-06-15 got its life path 4 from the call
C4_Witness ==
    /\ pc = "done"
    /\ arg.op = "generate_daily_entry"
    /\ arg.profile.birth_date = [year |-> 1990, month |-> 6, day |-> 15]
    /\ arg.profile.life_path_number = None
    /\ profile.life_path_number = Some(4)
    /\ ret.numerology.life_path = 4

\* C16: generate_daily_entry is deterministic: two successive invocations with
\* the same target_date on the same profile, the second seeing the profile as
\* the first left it (life_path_number cached), return field-for-field
\* identical reports.
C16_SameReportTwice ==
    (/\ Returned("generate_daily_entry")
     /\ arg.previous # None
     /\ arg.previous[1].target_date = arg.target_date)
        => ret = arg.previous[1].entry

\* the first call filled the cache with the master number 11, the second read it
C16_Witness ==
    /\ Returned("generate_daily_entry")
    /\ arg.previous # None
    /\ arg.previous[1].target_date = arg.target_date
    /\ arg.previous[1].profile.life_path_number = None
    /\ arg.profile.life_path_number = Some(11)
    /\ ret = arg.previous[1].entry
    /\ ret.numerology.life_path = 11

(***************************************************************************)
(* Moon engine (calculators/moon.py): phase name and illumination of a     *)
(* phase angle, zodiac sign of an ecliptic longitude.  Angles are counted  *)
(* in tenths of a degree, illumination in tenths of a percent.             *)
(***************************************************************************)
ZODIAC_SIGNS ==
    <<"Aries", "Taurus", "Gemini", "Cancer", "Leo", "Virgo", "Libra",
      "Scorpio", "Sagittarius", "Capricorn", "Aquarius", "Pisces">>

PhaseRange(start, end, phase_name) ==
    [start |-> start, end |-> end, phase_name |-> phase_name]

\* 22.5 degrees is 225 tenths: every band edge is v * Tenths + 5
PHASE_RANGES ==
    <<PhaseRange(0, 22 * Tenths + 5, "New Moon"),
      PhaseRange(22 * Tenths + 5, 67 * Tenths + 5, "Waxing Crescent"),
      PhaseRange(67 * Tenths + 5, 112 * Tenths + 5, "First Quarter"),
      PhaseRange(112 * Tenths + 5, 157 * Tenths + 5, "Waxing Gibbous"),
      PhaseRange(157 * Tenths + 5, 202 * Tenths + 5, "Full Moon"),
      PhaseRange(202 * Tenths + 5, 247 * Tenths + 5, "Waning Gibbous"),
      PhaseRange(247 * Tenths + 5, 292 * Tenths + 5, "Last Quarter"),
      PhaseRange(292 * Tenths + 5, 337 * Tenths + 5, "Waning Crescent"),
      PhaseRange(337 * Tenths + 5, 360 * Tenths, "New Moon")>>

\* (1 - abs(180 - angle) / 180) * 100 as the fraction num / den of tenths of
\* a percent: 1000 - 1000 * |1800 - t| / 1800 = (9000 - 5 * |1800 - t|) / 9
IlluminationNum(angle) == 9 * 100 * Tenths - 5 * Abs(180 * Tenths - angle)

IlluminationDen == 9

\* faulty variant: the illumination is taken after the angle is wrapped and
\* from the new-moon side only
phase_from_angle_linear(angle) ==
    LET wrapped == angle % (360 * Tenths)
        hits == {k \in DOMAIN PHASE_RANGES :
                    /\ PHASE_RANGES[k].start <= wrapped
                    /\ wrapped < PHASE_RANGES[k].end}
        first == CHOOSE k \in hits : \A j \in hits : k <= j
    IN  [phase_name |-> IF hits = {} THEN "New Moon"
                        ELSE PHASE_RANGES[first].phase_name,
         illumination |-> RoundHalfEven(5 * wrapped, IlluminationDen)]

\* the illumination is computed before the angle is taken modulo 360; the
\* loop returns at the first range with start <= angle < end
get_phase_from_angle(angle) ==
    LET illumination == RoundHalfEven(IlluminationNum(angle), IlluminationDen)
        wrapped == angle % (360 * Tenths)
        hits == {k \in DOMAIN PHASE_RANGES :
                    /\ PHASE_RANGES[k].start <= wrapped
                    /\ wrapped < PHASE_RANGES[k].end}
        first == CHOOSE k \in hits : \A j \in hits : k <= j
    IN  [phase_name |-> IF hits = {} THEN "New Moon"
                        ELSE PHASE_RANGES[first].phase_name,
         illumination |-> illumination]

\* int(x): truncation toward zero
IntTrunc(num, den) ==
    IF num >= 0 THEN num \div den ELSE -((-num) \div den)

\* sign_index = int(longitude / 30) % 12; Python's % is non-negative here
get_zodiac_sign_from_longitude(longitude) ==
    LET sign_index == IntTrunc(longitude, 30 * Tenths) % 12
    IN  ZODIAC_SIGNS[sign_index + 1]

(***************************************************************************)
(* Specification SpecMoon: one call of get_phase_from_angle on an angle of *)
(* [0, 360], or one call of get_zodiac_sign_from_longitude on a longitude  *)
(* of MaxTurns full turns to either side of zero.                          *)
(***************************************************************************)
MaxTurns == 2

PhaseAngles == 0..(360 * Tenths)

Longitudes == (-MaxTurns * 360 * Tenths)..(MaxTurns * 360 * Tenths)

InitMoon ==
    /\ pc = "call"
    /\ arg \in [op : {"get_phase_from_angle"}, angle : PhaseAngles]
              \cup [op : {"get_zodiac_sign_from_longitude"},
                    longitude : Longitudes]
    /\ ret = None
    /\ profile = NoProfile
    /\ store = EmptyStore
    /\ frame = NoFrame

CallPhaseFromAngle ==
    /\ pc = "call"
    /\ arg.op = "get_phase_from_angle"
    /\ ret' = get_phase_from_angle(arg.angle)
    /\ pc' = "done"
    /\ UNCHANGED <<arg, profile, store, frame>>

CallZodiacSign ==
    /\ pc = "call"
    /\ arg.op = "get_zodiac_sign_from_longitude"
    /\ ret' = get_zodiac_sign_from_longitude(arg.longitude)
    /\ pc' = "done"
    /\ UNCHANGED <<arg, profile, store, frame>>

NextMoon == CallPhaseFromAngle \/ CallZodiacSign

SpecMoon == InitMoon /\ [][NextMoon]_vars

\* the name of the 45-degree band that holds the angle a mod 360
BandName(a) ==
    LET m == a % 3600
    IN  IF m < 225 \/ m >= 3375 THEN "New Moon"
        ELSE IF m < 675 THEN "Waxing Crescent"
        ELSE IF m < 1125 THEN "First Quarter"
        ELSE IF m < 1575 THEN "Waxing Gibbous"
        ELSE IF m < 2025 THEN "Full Moon"
        ELSE IF m < 2475 THEN "Waning Gibbous"
        ELSE IF m < 2925 THEN "Last Quarter"
        ELSE "Waning Crescent"

\* C12 as stated: for 0 <= a <= 360 get_phase_from_angle(a) returns the name
\* of the 45-degree band of a mod 360 and the illumination
\* (1 - |180 - a| / 180) * 100 itself, which lies in [0,100], is 0 at a = 0
\* and 100 at a = 180.
C12_ExactIllumination ==
    Returned("get_phase_from_angle")
        => /\ ret.phase_name = BandName(arg.angle)
           /\ 9 * ret.illumination = 9000 - 5 * Abs(1800 - arg.angle)
           /\ ret.illumination \in 0..1000
           /\ arg.angle = 0 => ret.illumination = 0
           /\ arg.angle = 1800 => ret.illumination = 1000

\* C12 amended: the band name as stated; the illumination is the value
\* (1 - |180 - a| / 180) * 100 rounded to one decimal (so within 0.05 of it),
\* lies in [0,100], is 0 at a = 0 and at a = 360, and 100 at a = 180.
C12_RoundedIllumination ==
    Returned("get_phase_from_angle")
        => LET exact9 == 9000 - 5 * Abs(1800 - arg.angle)
           IN  /\ ret.phase_name = BandName(arg.angle)
               /\ 2 * Abs(9 * ret.illumination - exact9) <= 9
               /\ ret.illumination \in 0..1000
               /\ arg.angle \in {0, 3600} => ret.illumination = 0
               /\ arg.angle = 1800 => ret.illumination = 1000

\* 1 degree: the exact illumination 0.5555... is returned as 0.6
C12_Witness ==
    /\ Returned("get_phase_from_angle")
    /\ arg.angle = 10
    /\ ret.phase_name = "New Moon"
    /\ ret.illumination = 6

\* C13: get_zodiac_sign_from_longitude is periodic with period 360, negative
\* longitudes and longitudes >= 360 included, and for 0 <= x < 360 it returns
\* ZODIAC_SIGNS[floor(x / 30)], with 0 -> Aries and 30 -> Taurus.
C13_ZodiacPeriodic ==
    Returned("get_zodiac_sign_from_longitude")
        => LET x == arg.longitude
           IN  /\ ret = get_zodiac_sign_from_longitude(x + 3600)
               /\ (0 <= x /\ x < 3600) => ret = ZODIAC_SIGNS[(x \div 300) + 1]
               /\ x = 0 => ret = "Aries"
               /\ x = 300 => ret = "Taurus"

(***************************************************************************)
(* Specification SpecNumerologyDay: one call of                            *)
(* calculate_numerology_for_day for a birth date of the birth years and a  *)
(* target date of the target year, the life path left to the function.     *)
(***************************************************************************)
InitNumerologyDay ==
    /\ pc = "call"
    /\ arg \in [op : {"calculate_numerology_for_day"},
                birth_date : DatesOfYears(BirthYearFirst, BirthYearLast),
                target_date : DatesOfYears(TargetYear, TargetYear),
                life_path : {None}]
    /\ ret = None
    /\ profile = NoProfile
    /\ store = EmptyStore
    /\ frame = NoFrame

CallNumerologyForDay ==
    /\ pc = "call"
    /\ arg.op = "calculate_numerology_for_day"
    /\ ret' = calculate_numerology_for_day(arg.birth_date, arg.target_date,
                                           arg.life_path)
    /\ pc' = "done"
    /\ UNCHANGED <<arg, profile, store, frame>>

NextNumerologyDay == CallNumerologyForDay

SpecNumerologyDay == InitNumerologyDay /\ [][NextNumerologyDay]_vars

\* C14: personal_year, personal_month, personal_day and universal_day are each
\* in {1,...,9,11,22,33}; personal_month is the reduction of personal_year +
\* target month and personal_day the reduction of personal_month + target day.
C14_DayNumbers ==
    Returned("calculate_numerology_for_day")
        => /\ ret.personal_year \in NumerologyNumbers
           /\ ret.personal_month \in NumerologyNumbers
           /\ ret.personal_day \in NumerologyNumbers
           /\ ret.universal_day \in NumerologyNumbers
           /\ ret.personal_month
                = FirstStop(ret.personal_year + arg.target_date.month, TRUE)
           /\ ret.personal_day
                = FirstStop(ret.personal_month + arg.target_date.day, TRUE)

\* a master month carried into a master day: 9 + 2 = 11, 11 + 11 = 22
C14_Witness ==
    /\ Returned("calculate_numerology_for_day")
    /\ ret.personal_year = 9
    /\ arg.target_date.month = 2
    /\ arg.target_date.day = 11
    /\ ret.personal_month = 11
    /\ ret.personal_day = 22

(***************************************************************************)
(* Specification SpecEntryYear: one call of generate_daily_entry for every *)
(* date of the entry years, a leap year among them, on a profile with or   *)
(* without a Human Design type.                                             *)
(***************************************************************************)
EntryYearFirst == 2027

EntryYearLast == 2028

\* born long before the target dates, and on one of them
EntryProfiles ==
    {UserProfile("fresh", birth_date, None, human_design_type) :
        birth_date \in {[year |-> BirthYearFirst, month |-> 6, day |-> 15],
                        [year |-> 2027, month |-> 1, day |-> 6]},
        human_design_type \in {None, Some("Projector")}}

InitEntryYear ==
    /\ pc = "call"
    /\ arg \in [op : {"generate_daily_entry"},
                target_date : DatesOfYears(EntryYearFirst, EntryYearLast),
                profile : EntryProfiles]
    /\ ret = None
    /\ profile = arg.profile
    /\ store = EmptyStore
    /\ frame = NoFrame

CallGenerateDailyEntry ==
    /\ pc = "call"
    /\ arg.op = "generate_daily_entry"
    /\ LET out == generate_daily_entry(arg.target_date, profile)
       IN  /\ profile' = out.profile
           /\ ret' = out.entry
    /\ pc' = "done"
    /\ UNCHANGED <<arg, store, frame>>

NextEntryYear == CallGenerateDailyEntry

SpecEntryYear == InitEntryYear /\ [][NextEntryYear]_vars

\* C15: for every day_of_year in 1..366 the stub engines produce gate_number =
\* ((day_of_year * 7) mod 64) + 1 within 1..64, line = (day_of_year mod 6) + 1
\* within 1..6 and house_focus = (((day_of_year - 1) div 30) mod 12) + 1 within
\* 1..12; the hexagram_number equals the gate_number, changing_lines is
\* exactly [line], and the trigram indices are within 0..7.
C15_StubEngines ==
    Returned("generate_daily_entry")
        => LET d == ret.day_of_year
               gates == ret.human_design.active_gates
               hex == ret.i_ching.hexagram_number
           IN  /\ d \in 1..366
               /\ Len(gates) = 1
               /\ gates[1].gate_number = ((d * 7) % 64) + 1
               /\ gates[1].gate_number \in 1..64
               /\ gates[1].line = (d % 6) + 1
               /\ gates[1].line \in 1..6
               /\ ret.solar_transit.house_focus = (((d - 1) \div 30) % 12) + 1
               /\ ret.solar_transit.house_focus \in 1..12
               /\ hex = gates[1].gate_number
               /\ hex \in 1..64
               /\ ret.i_ching.changing_lines = <<gates[1].line>>
               /\ (hex - 1) \div 8 \in 0..7
               /\ (hex - 1) % 8 \in 0..7
               /\ ret.i_ching.trigram_above
                    = upper_trigrams[((hex - 1) \div 8) + 1]
               /\ ret.i_ching.trigram_below = upper_trigrams[((hex - 1) % 8) + 1]

\* the last day of a leap year: day 366, where the house focus wraps to 1
C15_Witness ==
    /\ Returned("generate_daily_entry")
    /\ arg.target_date = [year |-> 2028, month |-> 12, day |-> 31]
    /\ ret.day_of_year = 366
    /\ ret.human_design.active_gates[1].gate_number = 3
    /\ ret.human_design.active_gates[1].line = 1
    /\ ret.solar_transit.house_focus = 1
    /\ ret.i_ching.hexagram_number = 3

\* C24: for every report produced by generate_daily_entry (any target date,
\* any profile), risk_analysis.overall_risk_level is Low or Moderate: because
\* the moon engine always reports void-of-course false and, for each cycle,
\* the critical flag and a value below -50 never hold together, the sum of the
\* three domain scores never exceeds 11 and risk_score never exceeds 36.7.
C24_ReportRiskLowOrModerate ==
    Returned("generate_daily_entry")
        => LET bio == ret.biorhythm
               risk == ret.risk_analysis
           IN  /\ ~ret.moon.moon_void_of_course
               /\ ~(bio.physical_critical /\ bio.physical < -50 * Tenths)
               /\ ~(bio.emotional_critical /\ bio.emotional < -50 * Tenths)
               /\ ~(bio.intellectual_critical /\ bio.intellectual < -50 * Tenths)
               /\ risk.spiritual_risk + risk.emotional_risk + risk.physical_risk
                    <= 11
               /\ risk.risk_score <= 36 * Tenths + 7
               /\ risk.overall_risk_level \in {"Low", "Moderate"}

\* the report of the day of birth, a personal day 7: the three cycles are
\* critical at once and the bounds 11 and 36.7 are met
C24_Witness ==
    /\ Returned("generate_daily_entry")
    /\ arg.target_date = [year |-> 2027, month |-> 1, day |-> 6]
    /\ arg.profile.birth_date = arg.target_date
    /\ ret.numerology.personal_day = 7
    /\ ret.risk_analysis.spiritual_risk = 3
    /\ ret.risk_analysis.emotional_risk = 4
    /\ ret.risk_analysis.physical_risk = 4
    /\ ret.risk_analysis.risk_score = 36 * Tenths + 7
    /\ ret.risk_analysis.overall_risk_level = "Moderate"

(***************************************************************************)
(* CSV exporter (exporters/csv_exporter.py).  A file is the sequence of    *)
(* its rows, None the absence of a file at the output path.                *)
(***************************************************************************)
\* date.isoformat(): YYYY-MM-DD, given by its eight digits
IsoFormat(d) ==
    <<d.year \div 1000, (d.year \div 100) % 10, (d.year \div 10) % 10,
      d.year % 10, d.month \div 10, d.month % 10, d.day \div 10, d.day % 10>>

\* the columns of the modelled part of a DailyPreparation, in dict order
FIELD_NAMES ==
    <<"date", "day_of_year", "sun_sign", "house_focus", "life_path",
      "personal_year", "personal_month", "personal_day", "universal_day",
      "hd_type", "hd_authority", "hd_gates", "hexagram_number">>

entry_to_row(entry) ==
    [date |-> IsoFormat(entry.date),
     day_of_year |-> entry.day_of_year,
     sun_sign |-> entry.solar_transit.sun_sign,
     house_focus |-> entry.solar_transit.house_focus,
     life_path |-> entry.numerology.life_path,
     personal_year |-> entry.numerology.personal_year,
     personal_month |-> entry.numerology.personal_month,
     personal_day |-> entry.numerology.personal_day,
     universal_day |-> entry.numerology.universal_day,
     hd_type |-> entry.human_design.type,
     hd_authority |-> entry.human_design.authority,
     hd_gates |-> [k \in DOMAIN entry.human_design.active_gates |->
                      LET g == entry.human_design.active_gates[k]
                      IN  <<g.planet, g.gate_number, g.line>>],
     hexagram_number |-> entry.i_ching.hexagram_number]

HeaderRow(fieldnames) == [kind |-> "header", cells |-> fieldnames]

DataRow(row) == [kind |-> "data", cells |-> row]

\* the file at output_path after the call, existing being the file before it:
\* an empty list returns before the file is opened
export_csv(entries, existing) ==
    IF entries = << >> THEN existing
    ELSE LET rows == [k \in DOMAIN entries |-> entry_to_row(entries[k])]
             fieldnames == FIELD_NAMES
         IN  Some(<<HeaderRow(fieldnames)>>
                    \o [k \in DOMAIN rows |-> DataRow(rows[k])])

(***************************************************************************)
(* REST routes (web/routers/__init__.py) over the profiles directory.      *)
(* store maps every profile name that has a file to the saved record.  A   *)
(* handler yields the directory as it leaves it, the HTTP response, and    *)
(* the UserProfile object it held when it ended.                            *)
(***************************************************************************)
HttpError(status_code) == [status |-> status_code, body |-> None]

Response(status_code, body) == [status |-> status_code, body |-> Some(body)]

Handled(st, resp, prof) == [store |-> st, resp |-> resp, profile |-> prof]

\* date ordering
DateLess(a, b) ==
    \/ a.year < b.year
    \/ (a.year = b.year /\ a.month < b.month)
    \/ (a.year = b.year /\ a.month = b.month /\ a.day < b.day)

\* faulty variant: February always ends on the 28th
next_day_flat_february(d) ==
    LET last == IF d.month = 2 THEN 28 ELSE DaysInMonth(d.year, d.month)
    IN  IF d.day < last THEN [d EXCEPT !.day = @ + 1]
        ELSE IF d.month < 12 THEN [d EXCEPT !.month = @ + 1, !.day = 1]
        ELSE [year |-> d.year + 1, month |-> 1, day |-> 1]

\* current += timedelta(days=1)
NextDay(d) ==
    IF d.day < DaysInMonth(d.year, d.month) THEN [d EXCEPT !.day = @ + 1]
    ELSE IF d.month < 12 THEN [d EXCEPT !.month = @ + 1, !.day = 1]
    ELSE [year |-> d.year + 1, month |-> 1, day |-> 1]

\* Path.exists, Path.unlink and UserProfile.save on <name>.yaml; save stamps
\* the metadata, every instant being the one token "now"
Exists(st, name) == name \in DOMAIN st

Unlink(st, name) == [n \in DOMAIN st \ {name} |-> st[n]]

Stamped(prof) ==
    [prof EXCEPT !.metadata =
        [created_at |-> IF prof.metadata.created_at = None THEN Some("now")
                        ELSE prof.metadata.created_at,
         updated_at |-> Some("now")]]

Save(st, prof) ==
    [n \in DOMAIN st \cup {prof.name} |->
        IF n = prof.name THEN Stamped(prof) ELSE st[n]]

\* None stands for the HTTPException 404 of a missing file
load_profile(st, name) == IF Exists(st, name) THEN Some(st[name]) ELSE None

\* a time string is carried as the integers between its colons: "12:30" is
\* <<12, 30>>.  None stands for the exception of a string that has no second
\* part or names no time of the day.
build_birth_data(bd) ==
    IF bd.time = None \/ bd.time = Some(<< >>)
    THEN Some([date |-> bd.date, time |-> None])
    ELSE LET parts == bd.time[1]
         IN  IF /\ Len(parts) >= 2
                /\ parts[1] \in 0..23
                /\ parts[2] \in 0..59
             THEN Some([date |-> bd.date,
                        time |-> Some([hour |-> parts[1], minute |-> parts[2]])])
             ELSE None

ProfileOut(prof) ==
    [name |-> prof.name,
     birth_date |-> prof.birth_date,
     birth_time |-> prof.birth_time,
     life_path_number |-> prof.life_path_number,
     human_design_type |-> prof.human_design_type]

\* start + timedelta(days=k), a month at a time
RECURSIVE AddDays(_, _)
AddDays(d, k) ==
    LET left == DaysInMonth(d.year, d.month) - d.day
    IN  IF k <= left THEN [d EXCEPT !.day = @ + k]
        ELSE AddDays(NextDay([d EXCEPT !.day = @ + left]), k - left - 1)

\* the loop of _generate_entries on one profile object, for the count days
\* from start + first on: the iterations run in date order, each on the
\* profile as the one before left it; the span is split in halves so that
\* the evaluation stays shallow
RECURSIVE generate_entries_span(_, _, _, _)
generate_entries_span(prof, start, first, count) ==
    IF count = 0 THEN [profile |-> prof, entries |-> << >>]
    ELSE IF count = 1
    THEN LET out == generate_daily_entry(AddDays(start, first), prof)
         IN  [profile |-> out.profile, entries |-> <<out.entry>>]
    ELSE LET half == count \div 2
             head == generate_entries_span(prof, start, first, half)
             tail == generate_entries_span(head.profile, start, first + half,
                                           count - half)
         IN  [entries |-> head.entries \o tail.entries, profile |-> tail.profile]

\* while current <= end
generate_entries(prof, start, end) ==
    IF DateLess(end, start) THEN [profile |-> prof, entries |-> << >>]
    ELSE generate_entries_span(prof, start, 0,
                               ToOrdinal(end) - ToOrdinal(start) + 1)

\* faulty variant: the profile is saved with the life path the call cached
generate_daily_saving(req, st) ==
    LET loaded == load_profile(st, req.profile_name)
    IN  IF loaded = None THEN Handled(st, HttpError(404), NoProfile)
        ELSE LET out == generate_daily_entry(req.date, loaded[1])
             IN  Handled(Save(st, out.profile), Response(200, out.entry),
                         out.profile)

generate_daily(req, st) ==
    LET loaded == load_profile(st, req.profile_name)
    IN  IF loaded = None THEN Handled(st, HttpError(404), NoProfile)
        ELSE LET out == generate_daily_entry(req.date, loaded[1])
             IN  Handled(st, Response(200, out.entry), out.profile)

RangeLimit == 366

\* faulty variant: a span of exactly 366 days is refused
generate_range_exclusive(req, st) ==
    IF DateLess(req.end_date, req.start_date)
    THEN Handled(st, HttpError(422), NoProfile)
    ELSE IF ToOrdinal(req.end_date) - ToOrdinal(req.start_date) + 1 >= RangeLimit
    THEN Handled(st, HttpError(422), NoProfile)
    ELSE LET loaded == load_profile(st, req.profile_name)
         IN  IF loaded = None THEN Handled(st, HttpError(404), NoProfile)
             ELSE LET out == generate_entries(loaded[1], req.start_date,
                                              req.end_date)
                  IN  Handled(st, Response(200, out.entries), out.profile)

generate_range(req, st) ==
    IF DateLess(req.end_date, req.start_date)
    THEN Handled(st, HttpError(422), NoProfile)
    ELSE IF ToOrdinal(req.end_date) - ToOrdinal(req.start_date) + 1 > RangeLimit
    THEN Handled(st, HttpError(422), NoProfile)
    ELSE LET loaded == load_profile(st, req.profile_name)
         IN  IF loaded = None THEN Handled(st, HttpError(404), NoProfile)
             ELSE LET out == generate_entries(loaded[1], req.start_date,
                                              req.end_date)
                  IN  Handled(st, Response(200, out.entries), out.profile)

\* sorted(_PROFILES_DIR.glob("*.yaml")): the names in alphabetical order
NameOrder == <<"alice", "bob">>

list_profiles(st) ==
    LET IsStored(n) == Exists(st, n)
        names == SelectSeq(NameOrder, IsStored)
    IN  Handled(st,
                Response(200, [k \in DOMAIN names |-> ProfileOut(st[names[k]])]),
                NoProfile)

\* faulty variant: a missing profile is answered with an empty 200
get_profile_lenient(name, st) ==
    LET loaded == load_profile(st, name)
    IN  IF loaded = None THEN Handled(st, HttpError(200), NoProfile)
        ELSE Handled(st, Response(200, ProfileOut(loaded[1])), loaded[1])

get_profile(name, st) ==
    LET loaded == load_profile(st, name)
    IN  IF loaded = None THEN Handled(st, HttpError(404), NoProfile)
        ELSE Handled(st, Response(200, ProfileOut(loaded[1])), loaded[1])

\* the UserProfile a ProfileIn describes, its birth data already built
ProfileOf(req, birth_data) ==
    [UserProfile(req.name, birth_data.date, None, req.human_design_type)
        EXCEPT !.birth_time = birth_data.time]

\* faulty variant: an existing file is overwritten
create_profile_overwriting(req, st) ==
    LET birth_data == build_birth_data([date |-> req.birth_date,
                                        time |-> req.time])
    IN  IF birth_data = None THEN Handled(st, HttpError(500), NoProfile)
        ELSE LET prof == Stamped(ProfileOf(req, birth_data[1]))
             IN  Handled(Save(st, prof), Response(201, ProfileOut(prof)), prof)

\* an exception of _build_birth_data is not caught: the answer is a 500
create_profile(req, st) ==
    IF Exists(st, req.name) THEN Handled(st, HttpError(409), NoProfile)
    ELSE LET birth_data == build_birth_data([date |-> req.birth_date,
                                             time |-> req.time])
         IN  IF birth_data = None THEN Handled(st, HttpError(500), NoProfile)
             ELSE LET prof == Stamped(ProfileOf(req, birth_data[1]))
                  IN  Handled(Save(st, prof), Response(201, ProfileOut(prof)),
                              prof)

\* x or y, for optional strings
OrOptional(x, y) == IF x = None \/ x = Some("") THEN y ELSE x

\* the old file is unlinked before the new profile is built and saved
update_profile(name, req, st) ==
    LET existing == load_profile(st, name)
    IN  IF existing = None THEN Handled(st, HttpError(404), NoProfile)
        ELSE LET unlinked == IF req.name # name THEN Unlink(st, name) ELSE st
                 birth_data == build_birth_data([date |-> req.birth_date,
                                                 time |-> req.time])
             IN  IF birth_data = None
                 THEN Handled(unlinked, HttpError(500), existing[1])
                 ELSE LET updated ==
                            Stamped(
                              [ProfileOf(req, birth_data[1]) EXCEPT
                                 !.human_design_type =
                                     OrOptional(req.human_design_type,
                                                existing[1].human_design_type),
                                 !.human_design_strategy =
                                     existing[1].human_design_strategy,
                                 !.human_design_authority =
                                     existing[1].human_design_authority,
                                 !.life_path_number =
                                     existing[1].life_path_number,
                                 !.metadata = existing[1].metadata])
                      IN  Handled(Save(unlinked, updated),
                                  Response(200, ProfileOut(updated)), updated)

delete_profile(name, st) ==
    IF ~Exists(st, name) THEN Handled(st, HttpError(404), NoProfile)
    ELSE Handled(Unlink(st, name), HttpError(204), NoProfile)

\* the output path is a fresh temporary name; export_csv writes no file for
\* an empty list, and the FileResponse of a missing file fails: a 500.  The
\* file is given by its type and entry count.
file_response(fmt, st, out) ==
    IF fmt = "csv" /\ export_csv(out.entries, None) = None
    THEN Handled(st, HttpError(500), out.profile)
    ELSE Handled(st,
                 Response(200, [format |-> fmt, entries |-> Len(out.entries)]),
                 out.profile)

export_to(fmt, req, st) ==
    LET loaded == load_profile(st, req.profile_name)
    IN  IF loaded = None THEN Handled(st, HttpError(404), NoProfile)
        ELSE file_response(fmt, st,
                           generate_entries(loaded[1], req.start_date,
                                            req.end_date))

(***************************************************************************)
(* Specification SpecRest: the REST routes served one request at a time,   *)
(* from an empty profiles directory.  arg holds the route, the profile     *)
(* name of the request, its body, and the directory as the request found   *)
(* it; ret is the response.                                                 *)
(***************************************************************************)
Date(y, m, d) == [year |-> y, month |-> m, day |-> d]

ProfileNames == {NameOrder[k] : k \in DOMAIN NameOrder}

\* no time, and the time "25:00"
TimeInputs == {None, Some(<<25, 0>>)}

ProfileIns ==
    [name : ProfileNames,
     birth_date : {Date(1990, 6, 15), Date(1985, 1, 9)},
     time : TimeInputs,
     human_design_type : {None, Some("Projector")}]

DailyRequests ==
    [date : {Date(2026, 1, 1), Date(2028, 12, 31)}, profile_name : ProfileNames]

\* an end before the start, and spans of 1 and 2 days
RangeRequests ==
    [start_date : {Date(2026, 1, 1), Date(2026, 1, 2)},
     end_date : {Date(2026, 1, 1), Date(2026, 1, 2)},
     profile_name : ProfileNames]

ExportRequests ==
    [start_date : {Date(2026, 1, 1)},
     end_date : {Date(2025, 12, 31), Date(2026, 1, 2)},
     profile_name : ProfileNames]

InitRest ==
    /\ pc = "idle"
    /\ arg = None
    /\ ret = None
    /\ profile = NoProfile
    /\ store = EmptyStore
    /\ frame = NoFrame

\* the request as arg records it
Request(op, name, req) ==
    [op |-> op, name |-> name, req |-> req, before |-> store]

PostGenerateDaily ==
    \E req \in DailyRequests :
        LET out == generate_daily(req, store)
        IN  /\ arg' = Request("POST /generate/daily", req.profile_name, req)
            /\ store' = out.store
            /\ ret' = out.resp
            /\ profile' = out.profile
            /\ pc' = "done"
            /\ UNCHANGED frame

PostGenerateRange ==
    \E req \in RangeRequests :
        LET out == generate_range(req, store)
        IN  /\ arg' = Request("POST /generate/range", req.profile_name, req)
            /\ store' = out.store
            /\ ret' = out.resp
            /\ profile' = out.profile
            /\ pc' = "done"
            /\ UNCHANGED frame

GetProfiles ==
    LET out == list_profiles(store)
    IN  /\ arg' = Request("GET /profiles", "", None)
        /\ store' = out.store
        /\ ret' = out.resp
        /\ profile' = out.profile
        /\ pc' = "done"
        /\ UNCHANGED frame

GetProfile ==
    \E name \in ProfileNames :
        LET out == get_profile(name, store)
        IN  /\ arg' = Request("GET /profiles/{name}", name, None)
            /\ store' = out.store
            /\ ret' = out.resp
            /\ profile' = out.profile
            /\ pc' = "done"
            /\ UNCHANGED frame

PostProfiles ==
    \E req \in ProfileIns :
        LET out == create_profile(req, store)
        IN  /\ arg' = Request("POST /profiles", req.name, req)
            /\ store' = out.store
            /\ ret' = out.resp
            /\ profile' = out.profile
            /\ pc' = "done"
            /\ UNCHANGED frame

PutProfile ==
    \E name \in ProfileNames, req \in ProfileIns :
        LET out == update_profile(name, req, store)
        IN  /\ arg' = Request("PUT /profiles/{name}", name, req)
            /\ store' = out.store
            /\ ret' = out.resp
            /\ profile' = out.profile
            /\ pc' = "done"
            /\ UNCHANGED frame

DeleteProfile ==
    \E name \in ProfileNames :
        LET out == delete_profile(name, store)
        IN  /\ arg' = Request("DELETE /profiles/{name}", name, None)
            /\ store' = out.store
            /\ ret' = out.resp
            /\ profile' = out.profile
            /\ pc' = "done"
            /\ UNCHANGED frame

PostExportPdf ==
    \E req \in ExportRequests :
        LET out == export_to("pdf", req, store)
        IN  /\ arg' = Request("POST /export/pdf", req.profile_name, req)
            /\ store' = out.store
            /\ ret' = out.resp
            /\ profile' = out.profile
            /\ pc' = "done"
            /\ UNCHANGED frame

PostExportCsv ==
    \E req \in ExportRequests :
        LET out == export_to("csv", req, store)
        IN  /\ arg' = Request("POST /export/csv", req.profile_name, req)
            /\ store' = out.store
            /\ ret' = out.resp
            /\ profile' = out.profile
            /\ pc' = "done"
            /\ UNCHANGED frame

PostExportExcel ==
    \E req \in ExportRequests :
        LET out == export_to("excel", req, store)
        IN  /\ arg' = Request("POST /export/excel", req.profile_name, req)
            /\ store' = out.store
            /\ ret' = out.resp
            /\ profile' = out.profile
            /\ pc' = "done"
            /\ UNCHANGED frame

NextRest ==
    \/ PostGenerateDaily
    \/ PostGenerateRange
    \/ GetProfiles
    \/ GetProfile
    \/ PostProfiles
    \/ PutProfile
    \/ DeleteProfile
    \/ PostExportPdf
    \/ PostExportCsv
    \/ PostExportExcel

SpecRest == InitRest /\ [][NextRest]_vars

\* the routes that generate reports, and the routes that name one profile
GeneratingRoutes ==
    {"POST /generate/daily", "POST /generate/range", "POST /export/pdf",
     "POST /export/csv", "POST /export/excel"}

NamingRoutes ==
    GeneratingRoutes
        \cup {"GET /profiles/{name}", "PUT /profiles/{name}",
              "DELETE /profiles/{name}"}

Served == pc = "done"

\* the profile but for its cached life path
WithoutLifePath(prof) == [prof EXCEPT !.life_path_number = None]

\* C17: generate_daily_entry changes no field of the profile other than
\* life_path_number, and the routes /generate/daily, /generate/range and
\* /export/* never create, modify or delete a stored profile record: after
\* such a request the directory is as the request found it, and the profile
\* object the handler generated on is the stored record but for its life path.
C17_GenerationKeepsStore ==
    (Served /\ arg.op \in GeneratingRoutes)
        => /\ store = arg.before
           /\ (profile # NoProfile)
                => /\ arg.name \in DOMAIN arg.before
                   /\ WithoutLifePath(profile)
                        = WithoutLifePath(arg.before[arg.name])
           /\ ret.status = 200 => profile # NoProfile

\* the handler's object got its life path, the stored record did not
C17_Witness ==
    /\ Served
    /\ arg.op = "POST /generate/daily"
    /\ ret.status = 200
    /\ arg.name \in DOMAIN store
    /\ store[arg.name].life_path_number = None
    /\ profile.life_path_number = Some(4)
    /\ store = arg.before

\* the date range of a request is refused by POST /generate/range
RefusedRange(req) ==
    \/ DateLess(req.end_date, req.start_date)
    \/ ToOrdinal(req.end_date) - ToOrdinal(req.start_date) + 1 > 366

Builds(req) == req.time = None

\* the names GET /profiles returns for a directory
ListedNames(st) ==
    LET body == list_profiles(st).resp.body[1]
    IN  {body[k].name : k \in DOMAIN body}

C26_PutKeepsOtherProfiles ==
    (Served /\ arg.op \in NamingRoutes)
        => \A other \in DOMAIN arg.before \ {arg.name} :
              /\ other \in DOMAIN store
              /\ store[other] = arg.before[other]

\* C26, but for PUT: the other routes that name a profile leave every other
\* record as it was
C26_OtherRoutesKeepOtherProfiles ==
    (Served /\ arg.op \in NamingRoutes \ {"PUT /profiles/{name}"})
        => \A other \in DOMAIN arg.before \ {arg.name} :
              /\ other \in DOMAIN store
              /\ store[other] = arg.before[other]

\* C27: if a PUT /profiles/{name} request fails while the updated profile is
\* being built, the set of stored profile records and their contents are the
\* same as before the request; in particular a failing request that also
\* renames the profile does not delete the old record.
C27_FailedPutKeepsStore ==
    (Served /\ arg.op = "PUT /profiles/{name}" /\ ret.status = 500)
        => store = arg.before

\* C27, for a failing PUT that keeps the name: nothing is unlinked
C27_FailedPutWithoutRename ==
    (Served /\ arg.op = "PUT /profiles/{name}" /\ ret.status = 500
        /\ arg.req.name = arg.name)
        => store = arg.before

(***************************************************************************)
(* Specification SpecRange: one POST /generate/range on a profiles         *)
(* directory that is empty or holds the profile alice as POST /profiles    *)
(* saved it; the spans reach from an end before the start to 368 days.     *)
(***************************************************************************)
RangeStores ==
    {EmptyStore,
     create_profile([name |-> "alice", birth_date |-> Date(1990, 6, 15),
                     time |-> None, human_design_type |-> None],
                    EmptyStore).store}

LongRangeRequests ==
    [start_date : {Date(2026, 1, 1), Date(2026, 1, 2), Date(2026, 1, 3)},
     end_date : {Date(2025, 12, 31), Date(2026, 1, 1), Date(2026, 1, 2),
                 Date(2026, 1, 3), Date(2027, 1, 1), Date(2027, 1, 2),
                 Date(2027, 1, 3)},
     profile_name : ProfileNames]

InitRange ==
    /\ pc = "call"
    /\ store \in RangeStores
    /\ frame = NoFrame
    /\ arg \in {[op |-> "POST /generate/range", name |-> req.profile_name,
                 req |-> req, before |-> store] : req \in LongRangeRequests}
    /\ ret = None
    /\ profile = NoProfile

CallGenerateRange ==
    /\ pc = "call"
    /\ arg.op = "POST /generate/range"
    /\ LET out == generate_range(arg.req, store)
       IN  /\ store' = out.store
           /\ ret' = out.resp
           /\ profile' = out.profile
    /\ pc' = "done"
    /\ UNCHANGED <<arg, frame>>

NextRange == CallGenerateRange

SpecRange == InitRange /\ [][NextRange]_vars

\* C18: POST /generate/range with well-formed dates returns 422 if end_date <
\* start_date or if the inclusive span exceeds 366 days (a span of exactly 366
\* days is accepted); otherwise 404 if the named profile has no stored record,
\* and 200 otherwise.
C18_RangeStatus ==
    Returned("POST /generate/range")
        => LET req == arg.req
               span == ToOrdinal(req.end_date) - ToOrdinal(req.start_date) + 1
               \* an end in January 2027 is 365 days after its day of January 2026
               late == req.end_date.year = 2027
               invalid == \/ DateLess(req.end_date, req.start_date)
                          \/ span > 366
           IN  /\ late => span = 366 + req.end_date.day - req.start_date.day
               /\ ret.status \in {200, 404, 422}
               /\ ret.status = 422 <=> invalid
               /\ ret.status = 404
                    <=> (~invalid /\ req.profile_name \notin DOMAIN arg.before)
               /\ ret.status = 200
                    <=> (~invalid /\ req.profile_name \in DOMAIN arg.before)
               /\ (ret.status = 200 /\ late /\ req.end_date.day = req.start_date.day)
                    => Len(ret.body[1]) = 366

\* a span of exactly 366 days, 2026-01-01 to 2027-01-01, is served
C18_Witness ==
    /\ Returned("POST /generate/range")
    /\ arg.req.start_date = Date(2026, 1, 1)
    /\ arg.req.end_date = Date(2027, 1, 1)
    /\ ret.status = 200
    /\ Len(ret.body[1]) = 366
    /\ ret.body[1][366].date = Date(2027, 1, 1)

(***************************************************************************)
(* Specification SpecBatch: the loop of _generate_entries, one iteration a *)
(* step.  frame holds the locals current and entries; profile is the       *)
(* UserProfile object every iteration passes to generate_daily_entry.      *)
(***************************************************************************)
\* the spans run from 1 day to MaxSpan + 1 days
MaxSpan == 5

\* starts before a leap day, a year end and a month end
BatchStarts == {Date(2028, 2, 26), Date(2027, 12, 29), Date(2026, 4, 28)}

\* short spans from every start, an end before the start, and a span that
\* covers the whole leap year 2028
BatchCalls ==
    {[start |-> s, end |-> AddDays(s, k)] : s \in BatchStarts, k \in 0..MaxSpan}
        \cup {[start |-> AddDays(s, 1), end |-> s] : s \in BatchStarts}
        \cup {[start |-> Date(2027, 12, 29), end |-> Date(2029, 1, 2)]}

InitBatch ==
    /\ pc = "call"
    /\ arg \in {[op |-> "_generate_entries", profile |-> prof,
                 start |-> c.start, end |-> c.end]
                    : prof \in EntryProfiles, c \in BatchCalls}
    /\ ret = None
    /\ profile = arg.profile
    /\ store = EmptyStore
    /\ frame = NoFrame

\* entries = []; current = start
EnterLoop ==
    /\ pc = "call"
    /\ arg.op = "_generate_entries"
    /\ frame' = [current |-> arg.start, entries |-> << >>]
    /\ pc' = "loop"
    /\ UNCHANGED <<arg, ret, profile, store>>

\* while current <= end: append the entry of current, current += 1 day
LoopStep ==
    /\ pc = "loop"
    /\ ~DateLess(arg.end, frame.current)
    /\ LET out == generate_daily_entry(frame.current, profile)
       IN  /\ frame' = [current |-> NextDay(frame.current),
                        entries |-> Append(frame.entries, out.entry)]
           /\ profile' = out.profile
    /\ UNCHANGED <<pc, arg, ret, store>>

\* return entries
LoopReturn ==
    /\ pc = "loop"
    /\ DateLess(arg.end, frame.current)
    /\ ret' = frame.entries
    /\ frame' = NoFrame
    /\ pc' = "done"
    /\ UNCHANGED <<arg, profile, store>>

NextBatch == EnterLoop \/ LoopStep \/ LoopReturn

SpecBatch == InitBatch /\ [][NextBatch]_vars

\* the entries are those of the days start, start + 1, ... in this order
DatesFrom(entries, start) ==
    \A i \in DOMAIN entries :
        ToOrdinal(entries[i].date) = ToOrdinal(start) + (i - 1)

\* the days the loop still has to serve: the variant of its termination
Remaining == ToOrdinal(arg.end) - ToOrdinal(frame.current) + 1

\* C21: for start <= end the batch loop terminates and returns exactly
\* (end - start) + 1 entries, the i-th entry (from 0) carrying the date
\* start + i days: strictly ascending dates, no gap and no duplicate.  The
\* list is the one the routes /generate/range and the exports work on.
\* Termination: an iteration lowers the number of days left by exactly one,
\* and the loop is left as soon as that number is no longer positive.
C21_BatchLoop ==
    /\ [](Returned("_generate_entries")
            => /\ ~DateLess(arg.end, arg.start)
                    => /\ Len(ret) = ToOrdinal(arg.end) - ToOrdinal(arg.start) + 1
                       /\ DatesFrom(ret, arg.start)
                       /\ \A i \in 1..(Len(ret) - 1) :
                              DateLess(ret[i].date, ret[i + 1].date)
               /\ ret = generate_entries(arg.profile, arg.start, arg.end).entries)
    /\ [](pc = "loop"
            => /\ Remaining >= 0
               /\ Len(frame.entries) + Remaining
                    = ToOrdinal(arg.end) - ToOrdinal(arg.start) + 1)
    /\ [][pc = "loop"
            => \/ pc' = "done" /\ Remaining = 0
               \/ pc' = "loop" /\ Remaining > 0 /\ Remaining' = Remaining - 1]_vars

\* the 371 days from 2027-12-29 to 2029-01-02, the leap day among them
C21_Witness ==
    /\ Returned("_generate_entries")
    /\ arg.start = Date(2027, 12, 29)
    /\ arg.end = Date(2029, 1, 2)
    /\ Len(ret) = 371
    /\ ret[63].date = Date(2028, 2, 29)
    /\ ret[371].date = Date(2029, 1, 2)

(***************************************************************************)
(* Specification SpecCsv: one call of export_csv on a list of entries, in  *)
(* any order and with repetitions, to a path that has no file or holds the *)
(* file of an earlier export.  ret is the file at the path after the call. *)
(***************************************************************************)
\* the lists hold from 0 to MaxRows entries
MaxRows == 3

CsvEntries ==
    {generate_daily_entry(d, prof).entry :
        d \in {Date(2026, 9, 30), Date(2026, 10, 1), Date(2027, 1, 1)},
        prof \in {UserProfile("alice", Date(1990, 6, 15), None, None)}}

CsvLists == UNION {[1..n -> CsvEntries] : n \in 0..MaxRows}

\* no file, or the file an export of one entry left
CsvFiles ==
    {None} \cup {export_csv(<<e>>, None) : e \in CsvEntries}

InitCsv ==
    /\ pc = "call"
    /\ arg \in [op : {"export_csv"}, entries : CsvLists, existing : CsvFiles]
    /\ ret = None
    /\ profile = NoProfile
    /\ store = EmptyStore
    /\ frame = NoFrame

CallExportCsv ==
    /\ pc = "call"
    /\ arg.op = "export_csv"
    /\ ret' = export_csv(arg.entries, arg.existing)
    /\ pc' = "done"
    /\ UNCHANGED <<arg, profile, store, frame>>

NextCsv == CallExportCsv

SpecCsv == InitCsv /\ [][NextCsv]_vars

\* lexicographic order of two digit strings of the same length
RECURSIVE DigitsLess(_, _)
DigitsLess(a, b) ==
    /\ a # << >>
    /\ \/ a[1] < b[1]
       \/ (a[1] = b[1] /\ DigitsLess(Tail(a), Tail(b)))

\* a header row followed by one row per entry, row i with the date of entry i
HeaderAndRows(file, entries) ==
    /\ file # None
    /\ Len(file[1]) = Len(entries) + 1
    /\ file[1][1].kind = "header"
    /\ \A i \in DOMAIN entries :
          /\ file[1][i + 1].kind = "data"
          /\ file[1][i + 1].cells.date = IsoFormat(entries[i].date)
    /\ (\A i \in 1..(Len(entries) - 1) :
            DateLess(entries[i].date, entries[i + 1].date))
          => \A i \in 1..(Len(entries) - 1) :
                DigitsLess(file[1][i + 1].cells.date, file[1][i + 2].cells.date)

\* C22: CSV export of any list of N entries produces a file with exactly N+1
\* rows (one header row followed by one row per entry), row i carrying the
\* date of the i-th input entry, so rows are in ascending date order whenever
\* the input is.
C22_CsvRows ==
    Returned("export_csv") => HeaderAndRows(ret, arg.entries)

\* C22, for lists that are not empty: the file has N+1 rows as stated
C22_CsvRowsOfNonEmptyList ==
    (Returned("export_csv") /\ arg.entries # << >>)
        => HeaderAndRows(ret, arg.entries)

\* C22, for the empty list: the path is left as it was, without a header row
C22_EmptyListWritesNothing ==
    (Returned("export_csv") /\ arg.entries = << >>) => ret = arg.existing

(***************************************************************************)
(* Specification SpecProfiles: the profiles directory under the two ways   *)
(* of creating a profile (the command `profile create` and POST /profiles, *)
(* which write to the same directory), PUT /profiles/{name}, and POST      *)
(* /generate/daily, in any order, one at a time.                           *)
(***************************************************************************)
\* the end of a command: its exit status
Exit(code) == [status |-> code, body |-> None]

\* datetime.strptime(birth_time, "%H:%M").time(); None stands for ValueError
strptime_time(birth_time) ==
    IF Len(birth_time) = 2 /\ birth_time[1] \in 0..23 /\ birth_time[2] \in 0..59
    THEN Some([hour |-> birth_time[1], minute |-> birth_time[2]])
    ELSE None

\* the command computes the life path and saves the profile under its name,
\* whether or not the name has a file
profile_create(opts, st) ==
    LET bt == IF opts.birth_time = None \/ opts.birth_time = Some(<< >>)
              THEN Some(None)
              ELSE LET parsed == strptime_time(opts.birth_time[1])
                   IN  IF parsed = None THEN None ELSE Some(parsed)
    IN  IF bt = None THEN Handled(st, Exit(1), NoProfile)
        ELSE LET life_path == calculate_life_path(opts.birth_date)
                 user_profile ==
                     Stamped([UserProfile(opts.name, opts.birth_date,
                                          Some(life_path), None)
                                 EXCEPT !.birth_time = bt[1]])
             IN  Handled(Save(st, user_profile), Exit(0), user_profile)

ProfileCreateOptions ==
    [name : ProfileNames,
     birth_date : {Date(1990, 6, 15), Date(1985, 1, 9)},
     birth_time : TimeInputs]

CliProfileCreate ==
    \E opts \in ProfileCreateOptions :
        LET out == profile_create(opts, store)
        IN  /\ arg' = Request("profile create", opts.name, opts)
            /\ store' = out.store
            /\ ret' = out.resp
            /\ profile' = out.profile
            /\ pc' = "done"
            /\ UNCHANGED frame

NextProfiles ==
    \/ CliProfileCreate
    \/ PostProfiles
    \/ PutProfile
    \/ PostGenerateDaily

SpecProfiles == InitRest /\ [][NextProfiles]_vars

\* C23: after any sequence of profile creations (CLI profile create, POST
\* /profiles), updates (PUT /profiles/{name}) and report generations, every
\* stored profile whose life_path_number is set has life_path_number =
\* calculate_life_path(its current birth date), so every generated report's
\* numerology.life_path is the life path of the profile's current birth date.
C23_LifePathCurrent ==
    /\ \A name \in DOMAIN store :
          store[name].life_path_number # None
              => store[name].life_path_number =
                     Some(calculate_life_path(store[name].birth_date))
    /\ (Served /\ arg.op = "POST /generate/daily" /\ ret.status = 200)
          => ret.body[1].numerology.life_path =
                 calculate_life_path(store[arg.name].birth_date)

\* C23, without PUT: the records the two creations write never carry a life
\* path of another date
C23_LifePathAsCreated ==
    [][arg'.op # "PUT /profiles/{name}"
          => \A name \in DOMAIN store' :
                (name \notin DOMAIN store \/ store'[name] # store[name])
                    => store'[name].life_path_number
                          \in {None,
                               Some(calculate_life_path(store'[name].birth_date))}]_vars

(***************************************************************************)
(* Julian Day (calculators/moon.py).  A datetime is given by its date and  *)
(* its hour, the Julian Day is counted in tenths of a day.                 *)
(***************************************************************************)
\* faulty variant: the century correction B is left out
julian_day_no_century(dt) ==
    LET year == IF dt.month <= 2 THEN dt.year - 1 ELSE dt.year
        month == IF dt.month <= 2 THEN dt.month + 12 ELSE dt.month
    IN  ((36525 * (year + 4716)) \div 100) * Tenths
        + ((306001 * (month + 1)) \div 10000) * Tenths
        + dt.day * Tenths + (dt.hour * Tenths) \div 24
        - 15245

\* int(365.25 * n) is (36525 * n) \div 100 and int(30.6001 * n) is
\* (306001 * n) \div 10000; the day fraction hour / 24.0 has one decimal for
\* the hours 0 and 12; minute and second are 0
datetime_to_julian_day(dt) ==
    LET year == IF dt.month <= 2 THEN dt.year - 1 ELSE dt.year
        month == IF dt.month <= 2 THEN dt.month + 12 ELSE dt.month
        day == dt.day * Tenths + (dt.hour * Tenths) \div 24
        a == IntTrunc(year, 100)
        b == 2 - a + IntTrunc(a, 4)
    IN  ((36525 * (year + 4716)) \div 100) * Tenths
        + ((306001 * (month + 1)) \div 10000) * Tenths
        + day + b * Tenths - 15245

(***************************************************************************)
(* Specification SpecJulian: datetime_to_julian_day called on the noon of  *)
(* a first of January, and then on the noon of the day after the one of    *)
(* the call before, through the years JulianYearFirst..JulianYearLast.     *)
(***************************************************************************)
JulianYearFirst == 1900

JulianYearLast == 2100

\* datetime(d.year, d.month, d.day, 12, 0, 0)
Noon(d) == [year |-> d.year, month |-> d.month, day |-> d.day, hour |-> 12]

DateOf(dt) == [year |-> dt.year, month |-> dt.month, day |-> dt.day]

InitJulian ==
    /\ pc = "call"
    /\ arg \in {[op |-> "datetime_to_julian_day", dt |-> Noon(Date(y, 1, 1)),
                 previous |-> None] : y \in JulianYearFirst..JulianYearLast}
    /\ ret = None
    /\ profile = NoProfile
    /\ store = EmptyStore
    /\ frame = NoFrame

CallJulianDay ==
    /\ pc = "call"
    /\ arg.op = "datetime_to_julian_day"
    /\ ret' = datetime_to_julian_day(arg.dt)
    /\ pc' = "done"
    /\ UNCHANGED <<arg, profile, store, frame>>

\* the call on the day after, arg.previous keeping the call before it
CallJulianDayOfNextDay ==
    /\ pc = "done"
    /\ arg.op = "datetime_to_julian_day"
    /\ LET next == NextDay(DateOf(arg.dt))
       IN  /\ next.year <= JulianYearLast
           /\ arg' = [op |-> "datetime_to_julian_day", dt |-> Noon(next),
                      previous |-> Some([dt |-> arg.dt, jd |-> ret])]
           /\ ret' = datetime_to_julian_day(Noon(next))
    /\ UNCHANGED <<pc, profile, store, frame>>

NextJulian == CallJulianDay \/ CallJulianDayOfNextDay

SpecJulian == InitJulian /\ [][NextJulian]_vars

\* C30: for every Gregorian calendar date d from 1900-01-01 to 2100-12-30,
\* datetime_to_julian_day(d+1 day at 12:00) - datetime_to_julian_day(d at
\* 12:00) is exactly 1 (across month ends, year ends, leap days and the
\* non-leap century years 1900 and 2100), and datetime_to_julian_day(
\* 2000-01-01 12:00) = 2451545.0.  The Julian Day of a noon is the ordinal of
\* its date plus 1721425.
C30_JulianDay ==
    Returned("datetime_to_julian_day")
        => /\ arg.previous # None
                => /\ DateOf(arg.dt) = NextDay(DateOf(arg.previous[1].dt))
                   /\ ret - arg.previous[1].jd = 1 * Tenths
           /\ arg.dt = Noon(Date(2000, 1, 1)) => ret = 2451545 * Tenths
           /\ ret = (ToOrdinal(DateOf(arg.dt)) + 1721425) * Tenths

\* 2100 is no leap year: the noon of 2100-03-01 follows that of 2100-02-28
C30_Witness ==
    /\ Returned("datetime_to_julian_day")
    /\ arg.dt = Noon(Date(2100, 3, 1))
    /\ arg.previous # None
    /\ arg.previous[1].dt = Noon(Date(2100, 2, 28))
    /\ ret = arg.previous[1].jd + 1 * Tenths

(***************************************************************************)
(* Specification SpecBiorhythmDay: one call of calculate_biorhythm_for_day *)
(* for every target date of EntryYearFirst..EntryYearLast and birth dates  *)
(* long before, on, and after the target date.                             *)
(***************************************************************************)
BiorhythmBirthDates == {Date(1990, 6, 15), Date(EntryYearFirst, 7, 1)}

InitBiorhythmDay ==
    /\ pc = "call"
    /\ arg \in [op : {"calculate_biorhythm_for_day"},
                birth_date : BiorhythmBirthDates,
                target_date : DatesOfYears(EntryYearFirst, EntryYearLast)]
    /\ ret = None
    /\ profile = NoProfile
    /\ store = EmptyStore
    /\ frame = NoFrame

CallBiorhythmForDay ==
    /\ pc = "call"
    /\ arg.op = "calculate_biorhythm_for_day"
    /\ ret' = calculate_biorhythm_for_day(arg.birth_date, arg.target_date)
    /\ pc' = "done"
    /\ UNCHANGED <<arg, profile, store, frame>>

NextBiorhythmDay == CallBiorhythmForDay

SpecBiorhythmDay == InitBiorhythmDay /\ [][NextBiorhythmDay]_vars

Threads == {1, 2}

RaceName == "alice"

RaceBodies == {req \in ProfileIns : req.name = RaceName}

AllAnswered(at) == \A t \in Threads : at[t] = "done"

InitRace ==
    /\ pc = "racing"
    /\ \E first \in RaceBodies, second \in RaceBodies :
          arg = [op |-> "POST /profiles", reqs |-> <<first, second>>,
                 before |-> EmptyStore]
    /\ ret = None
    /\ profile = NoProfile
    /\ store = EmptyStore
    /\ frame = [at |-> <<"check", "check">>, resp |-> <<None, None>>,
                writer |-> 0]

\* if filepath.exists(): raise HTTPException(status_code=409)
CheckExists ==
    \E t \in Threads :
        /\ pc = "racing"
        /\ frame.at[t] = "check"
        /\ LET found == Exists(store, arg.reqs[t].name)
               at == [frame.at EXCEPT ![t] = IF found THEN "done" ELSE "write"]
               resp == [frame.resp EXCEPT
                          ![t] = IF found THEN HttpError(409) ELSE @]
           IN  /\ frame' = [frame EXCEPT !.at = at, !.resp = resp]
               /\ pc' = IF AllAnswered(at) THEN "done" ELSE "racing"
               /\ ret' = IF AllAnswered(at) THEN resp ELSE None
        /\ UNCHANGED <<arg, profile, store>>

\* the profile is built and saved with no second look at the directory
BuildAndSave ==
    \E t \in Threads :
        /\ pc = "racing"
        /\ frame.at[t] = "write"
        /\ LET out == create_profile(arg.reqs[t], EmptyStore)
               at == [frame.at EXCEPT ![t] = "done"]
               resp == [frame.resp EXCEPT ![t] = out.resp]
               saved == out.resp.status = 201
           IN  /\ store' = IF saved THEN Save(store, out.profile) ELSE store
               /\ frame' = [at |-> at, resp |-> resp,
                            writer |-> IF saved THEN t ELSE frame.writer]
               /\ pc' = IF AllAnswered(at) THEN "done" ELSE "racing"
               /\ ret' = IF AllAnswered(at) THEN resp ELSE None
        /\ UNCHANGED <<arg, profile>>

NextRace == CheckExists \/ BuildAndSave

SpecRace == InitRace /\ [][NextRace]_vars

\* both bodies describe a profile that can be built
BothBuild ==
    \A t \in Threads :
        build_birth_data([date |-> arg.reqs[t].birth_date,
                          time |-> arg.reqs[t].time]) # None

\* the record the request of thread t saves
RecordOf(t) == create_profile(arg.reqs[t], EmptyStore).profile

\* C28: when two POST /profiles requests for the same not-yet-stored name run
\* concurrently, their existence check and file write interleaved in any
\* order, at most one of them returns 201 and the other returns 409, and the
\* stored record afterwards is the one written by the request that returned
\* 201.
C28_OneCreateWins ==
    (pc = "done" /\ BothBuild)
        => \E t \in Threads :
              /\ ret[t].status = 201
              /\ \A u \in Threads \ {t} : ret[u].status = 409
              /\ Exists(store, RaceName)
              /\ store[RaceName] = RecordOf(t)

\* C28, as the code has it: every request that found no file answers 201, at
\* least one does, and the stored record is the one of the request that wrote
\* last
C28_LastWriterWins ==
    (pc = "done" /\ BothBuild)
        => /\ frame.writer \in Threads
           /\ ret[frame.writer].status = 201
           /\ \A u \in Threads : ret[u].status \in {201, 409}
           /\ Exists(store, RaceName)
           /\ store[RaceName] = RecordOf(frame.writer)

\* both requests are answered with a 201 and the record of the first is lost
C28_BothCreated ==
    /\ pc = "done"
    /\ ret[1].status = 201
    /\ ret[2].status = 201
    /\ frame.writer = 2
    /\ RecordOf(1) # RecordOf(2)
    /\ store[RaceName] = RecordOf(2)

====
